---- MODULE Spec2Model ----
(***************************************************************************)
(* A model of glu (tilde35/glu): the fixed-interval stepper TimeStep       *)
(* (src/src/time_step.rs) and the event translator with its interaction    *)
(* state (src/src/event.rs, src/src/event_state.rs, src/src/screen_units.rs).*)
(*                                                                         *)
(* Time: an Instant is a whole number of milliseconds on the monotonic     *)
(* clock; nanosecond quantities are kept in nanoseconds as the code keeps  *)
(* them.                                                                   *)
(***************************************************************************)
EXTENDS Integers, Sequences, FiniteSets

VARIABLES
    now,         \* the monotonic clock, as Instant::now() reads it (ms)
    ts,          \* the TimeStep under test
    fired,       \* callback invocations made by the most recent ts.tick()
    twin,        \* a second TimeStep, living on a clock shifted by twin_shift
    twin_shift,  \* how far the twin's clock is ahead of `now` (ms)
    twin_fired,  \* callback invocations made by the most recent twin.tick()
    dur,         \* history: the time that passed before the most recent tick (ms), -1 before the first
    carry,       \* history: ts.elapsed_nanos when the most recent tick was entered
    es,          \* the EventState the host loop owns
    ret,         \* the Event the most recent Event::from_gl returned
    raw,         \* history: the raw backend event most recently translated
    pre_windows, \* history: es.windows when that event was delivered
    relooked,    \* history: that event looked up the window identity that the
                 \* event just before it had added to the registry
    last_op,     \* history, per tracked button: its most recent press-or-release
    after_cancel,\* history, per tracked button: "cancel" once Escape went down
                 \* while it was held, "released" once it was released after
                 \* that, "none" again at its next press
    press_pos,   \* history, per tracked button: the logical mouse position
                 \* at its most recent press
    drag_origin, \* history: the logical mouse position when the state last went
                 \* from no tracked button held to a tracked button held
    reg_order,   \* history: the window identities that were registered and not
                 \* destroyed since, in the order of their registration
    last_mods,   \* history: the modifiers the most recent modifier-change
                 \* notification reported
    call,        \* history: the most recent call of a constructor or setter
    outcome      \* what that call did: it returned a value or it faulted

stepVars == <<now, ts, fired, twin, twin_shift, twin_fired, dur, carry>>

evtVars == <<es, ret, raw, pre_windows, relooked, last_op, after_cancel, press_pos,
             drag_origin, reg_order, last_mods>>

cfgVars == <<call, outcome>>

vars == <<stepVars, evtVars, cfgVars>>

(***************************************************************************)
(* Bounds of the model.                                                    *)
(***************************************************************************)
\* largest max_missed a stepper is configured with
MaxMissed == 2
\* the clock stops being advanced past this instant (ms)
MaxClockMs == 3000
\* no tick is fed more accumulated time than this (ms)
MaxBacklogMs == 2000

\* frequencies (ms) the stepper is constructed with
FreqMsecs == {0, 200, 500}
\* the time that passes between two polls (ms)
Durations == {0, 100, 300, 500, 1000, 1800}
\* the instants at which the steppers are constructed (ms)
StartInstants == {0, 200}
\* how far ahead the twin's clock runs (ms)
TwinShifts == {0, 100}

(***************************************************************************)
(* TimeStep                                                                *)
(***************************************************************************)
NanosPerMs == 1000000
NanosPerSec == 1000000000

\* Duration::as_secs and Duration::subsec_nanos of a duration of e ms
as_secs(e) == e \div 1000
subsec_nanos(e) == (e % 1000) * NanosPerMs

\* mutant: the stepper starts measuring from the clock's origin instead of
\* from the instant of its construction
for_freq_ms_from_origin(freq_msec, inst) ==
    [freq_nanos |-> freq_msec * NanosPerMs,
     max_missed |-> 1,
     last_inst |-> 0,
     elapsed_nanos |-> 0]

\* TimeStep::for_freq_ms, called at instant inst
for_freq_ms(freq_msec, inst) ==
    [freq_nanos |-> freq_msec * NanosPerMs,
     max_missed |-> 1,
     last_inst |-> inst,
     elapsed_nanos |-> 0]

\* TimeStep::max_missed_steps_before_discard
max_missed_steps_before_discard(self, max_miss) ==
    [self EXCEPT !.max_missed = max_miss]

\* TimeStep::update_elapsed, called at instant inst
update_elapsed(self, inst) ==
    LET e == inst - self.last_inst
    IN  [self EXCEPT !.last_inst = inst,
                     !.elapsed_nanos = @ + (as_secs(e) * NanosPerSec) + subsec_nanos(e)]

\* mutant: the discard test compares with > instead of >=
RECURSIVE tick_loop_late_discard(_, _, _)
tick_loop_late_discard(self, count, calls) ==
    IF self.elapsed_nanos >= self.freq_nanos
    THEN LET s1 == [self EXCEPT !.elapsed_nanos = @ - self.freq_nanos]
         IN  IF count > s1.max_missed /\ s1.elapsed_nanos >= s1.freq_nanos
             THEN [self |-> [s1 EXCEPT !.elapsed_nanos = 0], calls |-> calls + 1]
             ELSE tick_loop_late_discard(s1, count + 1, calls + 1)
    ELSE [self |-> self, calls |-> calls]

\* mutant: on reaching the cap the loop stops but keeps the backlog
RECURSIVE tick_loop_keep_backlog(_, _, _)
tick_loop_keep_backlog(self, count, calls) ==
    IF self.elapsed_nanos >= self.freq_nanos
    THEN LET s1 == [self EXCEPT !.elapsed_nanos = @ - self.freq_nanos]
         IN  IF count >= s1.max_missed /\ s1.elapsed_nanos >= s1.freq_nanos
             THEN [self |-> s1, calls |-> calls + 1]
             ELSE tick_loop_keep_backlog(s1, count + 1, calls + 1)
    ELSE [self |-> self, calls |-> calls]

\* mutant: the interval is subtracted only after the discard test
RECURSIVE tick_loop_late_subtract(_, _, _)
tick_loop_late_subtract(self, count, calls) ==
    IF self.elapsed_nanos >= self.freq_nanos
    THEN IF count >= self.max_missed /\ self.elapsed_nanos >= self.freq_nanos
         THEN [self |-> [self EXCEPT !.elapsed_nanos = 0], calls |-> calls + 1]
         ELSE tick_loop_late_subtract(
                  [self EXCEPT !.elapsed_nanos = @ - self.freq_nanos],
                  count + 1, calls + 1)
    ELSE [self |-> self, calls |-> calls]

\* the while loop of TimeStep::tick: `count` is the loop's counter, `calls`
\* the number of times the callback has been invoked so far
RECURSIVE tick_loop(_, _, _)
tick_loop(self, count, calls) ==
    IF self.elapsed_nanos >= self.freq_nanos
    THEN LET s1 == [self EXCEPT !.elapsed_nanos = @ - self.freq_nanos]
         IN  IF count >= s1.max_missed /\ s1.elapsed_nanos >= s1.freq_nanos
             THEN [self |-> [s1 EXCEPT !.elapsed_nanos = 0], calls |-> calls + 1]
             ELSE tick_loop(s1, count + 1, calls + 1)
    ELSE [self |-> self, calls |-> calls]

\* TimeStep::tick, called at instant inst
tick(self, inst) == tick_loop(update_elapsed(self, inst), 0, 0)

\* mutant: the loop's counter is never incremented
tick_iteration_stuck_counter(self, count) ==
    IF self.elapsed_nanos >= self.freq_nanos
    THEN LET s1 == [self EXCEPT !.elapsed_nanos = @ - self.freq_nanos]
         IN  IF count >= s1.max_missed /\ s1.elapsed_nanos >= s1.freq_nanos
             THEN [self |-> [s1 EXCEPT !.elapsed_nanos = 0], count |-> count,
                   called |-> TRUE, returned |-> TRUE]
             ELSE [self |-> s1, count |-> count,
                   called |-> TRUE, returned |-> FALSE]
    ELSE [self |-> self, count |-> count, called |-> FALSE, returned |-> TRUE]

\* one evaluation of the while condition of TimeStep::tick and, if it holds,
\* one pass through the loop body: the stepper and the counter afterwards,
\* whether the callback was invoked and whether tick has returned
tick_iteration(self, count) ==
    IF self.elapsed_nanos >= self.freq_nanos
    THEN LET s1 == [self EXCEPT !.elapsed_nanos = @ - self.freq_nanos]
         IN  IF count >= s1.max_missed /\ s1.elapsed_nanos >= s1.freq_nanos
             THEN [self |-> [s1 EXCEPT !.elapsed_nanos = 0], count |-> count,
                   called |-> TRUE, returned |-> TRUE]
             ELSE [self |-> s1, count |-> count + 1,
                   called |-> TRUE, returned |-> FALSE]
    ELSE [self |-> self, count |-> count, called |-> FALSE, returned |-> TRUE]


(***************************************************************************)
(* Screen2d (src/src/screen_units.rs).  An R32 is modelled by an integer;  *)
(* the physical values and scale factors fed to the model are chosen so    *)
(* that every division the code makes is exact.  The logical line height, *)
(* whose configuration distinguishes values below 1.0, is counted in       *)
(* tenths of a logical pixel.                                              *)
(***************************************************************************)
\* the number of line-height units in one logical pixel
LineHeightUnit == 10

\* Screen2d::from_logical
from_logical(logical, hidpi_factor) ==
    [logical |-> <<logical[1], logical[2]>>, hidpi_factor |-> hidpi_factor]

\* Screen2d::from_physical_f32
from_physical_f32(physical, hidpi_factor) ==
    LET logical == <<physical[1] \div hidpi_factor, physical[2] \div hidpi_factor>>
    IN  from_logical(logical, hidpi_factor)

\* Screen2d::from_physical
from_physical(physical, hidpi_factor) ==
    from_physical_f32(<<physical[1], physical[2]>>, hidpi_factor)

\* Screen2d::from_physical_u32
from_physical_u32(physical, hidpi_factor) ==
    from_physical_f32(<<physical[1], physical[2]>>, hidpi_factor)

\* Screen2d::from_logical_r32
from_logical_r32(logical, hidpi_factor) ==
    [logical |-> logical, hidpi_factor |-> hidpi_factor]

\* Screen2d::from_physical_size_u32: a physical size, back-computed to logical
from_physical_size_u32(phys_size, hidpi_factor) ==
    from_physical_f32(<<phys_size[1], phys_size[2]>>, hidpi_factor)

\* Screen2d::from_physical_position_i32: a physical position, back-computed
from_physical_position_i32(pos, hidpi_factor) ==
    from_physical_f32(<<pos[1], pos[2]>>, hidpi_factor)

\* Screen2d::from_physical_position_f64: a physical position, back-computed
from_physical_position_f64(pos, hidpi_factor) ==
    from_physical_f32(<<pos[1], pos[2]>>, hidpi_factor)

\* Screen2d::from_line_delta
from_line_delta(delta_x, delta_y, line_factor, hidpi_factor) ==
    [logical |-> <<(delta_x * line_factor) \div LineHeightUnit,
                   (delta_y * line_factor) \div LineHeightUnit>>,
     hidpi_factor |-> hidpi_factor]

\* impl Sub for Screen2d: component-wise, keeping the left operand's factor
sub(self, other) ==
    [logical |-> <<self.logical[1] - other.logical[1],
                   self.logical[2] - other.logical[2]>>,
     hidpi_factor |-> self.hidpi_factor]

(***************************************************************************)
(* EventState, MouseButtonState, WindowData (src/src/event_state.rs)       *)
(***************************************************************************)
None == [some |-> FALSE]
Some(v) == [some |-> TRUE, value |-> v]

\* impl Default for MouseButtonState
MouseButtonState_default ==
    [button |-> "Left",
     pressed |-> FALSE,
     pressed_at |-> from_logical(<<0, 0>>, 1),
     cancelled |-> FALSE]

\* WindowData::new (its assertion holds of the factors the model constructs with)
WindowData_new(id, dim, hidpi_factor) ==
    [id |-> id, dim |-> dim, hidpi_factor |-> hidpi_factor]

\* EventState::new, for a display with this scale factor, window identity
\* and framebuffer size
EventState_new(hidpi_factor, win_id, framebuffer) ==
    LET win_dim == from_physical_u32(framebuffer, hidpi_factor)
    IN  [mouse_pos |-> from_logical(<<0, 0>>, hidpi_factor),
         mouse_activity_start |-> from_logical(<<0, 0>>, hidpi_factor),
         mouse_in_window |-> FALSE,
         mouse_left |-> [MouseButtonState_default EXCEPT !.button = "Left"],
         mouse_middle |-> [MouseButtonState_default EXCEPT !.button = "Middle"],
         mouse_right |-> [MouseButtonState_default EXCEPT !.button = "Right"],
         shift_down |-> FALSE,
         alt_down |-> FALSE,
         ctrl_down |-> FALSE,
         logo_down |-> FALSE,
         windows |-> <<WindowData_new(win_id, win_dim, hidpi_factor)>>,
         logical_line_height |-> 18 * LineHeightUnit]

\* mutant: the accessor reads the most recently added entry
primary_win_dim_newest(self) ==
    IF Len(self.windows) > 0
    THEN self.windows[Len(self.windows)].dim
    ELSE from_logical(<<0, 0>>, 1)

\* EventState::primary_win_dim
primary_win_dim(self) ==
    IF Len(self.windows) > 0 THEN self.windows[1].dim ELSE from_logical(<<0, 0>>, 1)

\* EventState::hidpi_factor_r32
hidpi_factor_r32(self) ==
    IF Len(self.windows) > 0 THEN self.windows[1].hidpi_factor ELSE 1

\* mutant: the search compares an entry's position with the identity and so
\* never finds an entry
find_win_never(windows, id) == 0

\* the search of get_or_create_win: the index of the first entry with this
\* identity, 0 for none
find_win(windows, id) ==
    IF \E i \in 1..Len(windows) : windows[i].id = id
    THEN CHOOSE i \in 1..Len(windows) :
             /\ windows[i].id = id
             /\ \A j \in 1..(i - 1) : windows[j].id # id
    ELSE 0

\* mutant: a new entry starts with scale factor 1.0 whatever is known
get_or_create_win_unit_factor(self, id) ==
    LET idx == find_win(self.windows, id)
    IN  IF idx # 0
        THEN [state |-> self, idx |-> idx]
        ELSE LET w == [id |-> id,
                       dim |-> from_logical_r32(<<0, 0>>, 1),
                       hidpi_factor |-> 1]
             IN  [state |-> [self EXCEPT !.windows = Append(@, w)],
                  idx |-> Len(self.windows) + 1]

\* mutant: only the first entry is compared with the identity
get_or_create_win_first_only(self, id) ==
    LET idx == IF Len(self.windows) > 0 /\ self.windows[1].id = id THEN 1 ELSE 0
    IN  IF idx # 0
        THEN [state |-> self, idx |-> idx]
        ELSE LET hidpi_factor == hidpi_factor_r32(self)
                 w == [id |-> id,
                       dim |-> from_logical_r32(<<0, 0>>, hidpi_factor),
                       hidpi_factor |-> hidpi_factor]
             IN  [state |-> [self EXCEPT !.windows = Append(@, w)],
                  idx |-> Len(self.windows) + 1]

\* EventState::get_or_create_win: the state afterwards and the index of the
\* entry the returned reference points at
get_or_create_win(self, id) ==
    LET idx == find_win(self.windows, id)
    IN  IF idx # 0
        THEN [state |-> self, idx |-> idx]
        ELSE LET hidpi_factor == hidpi_factor_r32(self)
                 w == [id |-> id,
                       dim |-> from_logical_r32(<<0, 0>>, hidpi_factor),
                       hidpi_factor |-> hidpi_factor]
             IN  [state |-> [self EXCEPT !.windows = Append(@, w)],
                  idx |-> Len(self.windows) + 1]

\* mutant: retain keeps the entries of the destroyed window and drops the rest
window_destroyed_inverted(self, id) ==
    [self EXCEPT !.windows = SelectSeq(@, LAMBDA w : w.id = id)]

\* EventState::window_destroyed
window_destroyed(self, id) ==
    [self EXCEPT !.windows = SelectSeq(@, LAMBDA w : w.id # id)]

\* mutant: only the left button is looked at
is_any_mouse_button_pressed_left_only(self) ==
    self.mouse_left.pressed

\* mutant: the line height is only required to be positive
set_logical_line_height_positive(self, h) ==
    IF ~(h > 0)
    THEN [fault |-> TRUE, state |-> self]
    ELSE [fault |-> FALSE, state |-> [self EXCEPT !.logical_line_height = h]]

\* EventState::set_logical_line_height: whether its assertion faulted, and
\* the state the call leaves
set_logical_line_height(self, h) ==
    IF ~(h >= 1 * LineHeightUnit)
    THEN [fault |-> TRUE, state |-> self]
    ELSE [fault |-> FALSE, state |-> [self EXCEPT !.logical_line_height = h]]

\* EventState::is_any_mouse_button_pressed
is_any_mouse_button_pressed(self) ==
    self.mouse_left.pressed \/ self.mouse_middle.pressed \/ self.mouse_right.pressed

\* mutant: the origin of the left button is returned without looking at pressed
get_mouse_pressed_at_stale(self) ==
    Some(self.mouse_left.pressed_at)

\* EventState::get_mouse_pressed_at
get_mouse_pressed_at(self) ==
    IF self.mouse_left.pressed THEN Some(self.mouse_left.pressed_at)
    ELSE IF self.mouse_middle.pressed THEN Some(self.mouse_middle.pressed_at)
    ELSE IF self.mouse_right.pressed THEN Some(self.mouse_right.pressed_at)
    ELSE None

\* EventState::get_mouse_drag_dist
get_mouse_drag_dist(self) ==
    LET start == get_mouse_pressed_at(self)
    IN  IF start.some THEN Some(sub(self.mouse_pos, start.value)) ELSE None

(***************************************************************************)
(* Event (src/src/event.rs).  A raw backend event is a record with a scope *)
(* ("window", "device", "app"), a kind and the kind's fields; a normalized *)
(* Event is a record with its variant in `type`.  Translating returns the  *)
(* Event and the EventState as the call leaves it.                         *)
(***************************************************************************)
\* MouseButton::from_gl
MouseButton_from_gl(btn) == btn

\* mutant: the middle button is mapped to the right button's state
mouse_data_for_swapped(b) ==
    CASE b = "Left" -> "mouse_left"
      [] b = "Middle" -> "mouse_right"
      [] b = "Right" -> "mouse_right"
      [] OTHER -> "none"

\* mutant: any other button is tracked as the left button
mouse_data_for_other_as_left(b) ==
    CASE b = "Left" -> "mouse_left"
      [] b = "Middle" -> "mouse_middle"
      [] b = "Right" -> "mouse_right"
      [] OTHER -> "mouse_left"

\* Event::mouse_data_for: the field of EventState that tracks the button
mouse_data_for(b) ==
    CASE b = "Left" -> "mouse_left"
      [] b = "Middle" -> "mouse_middle"
      [] b = "Right" -> "mouse_right"
      [] OTHER -> "none"

\* from_window_event, Resized
WindowEvent_Resized(win_id, evt, evt_state) ==
    LET g == get_or_create_win(evt_state, win_id)
        f == g.state.windows[g.idx].hidpi_factor
        size == from_physical_size_u32(evt.size, f)
    IN  [event |-> [type |-> "WindowResize", win_id |-> win_id, size |-> size],
         state |-> [g.state EXCEPT !.windows[g.idx].dim = size]]

\* from_window_event, Moved
WindowEvent_Moved(win_id, evt, evt_state) ==
    LET g == get_or_create_win(evt_state, win_id)
        f == g.state.windows[g.idx].hidpi_factor
        pos == from_physical_position_i32(evt.position, f)
    IN  [event |-> [type |-> "WindowMove", win_id |-> win_id, pos |-> pos],
         state |-> g.state]

\* from_window_event, CloseRequested
WindowEvent_CloseRequested(win_id, evt, evt_state) ==
    [event |-> [type |-> "WindowClose", win_id |-> win_id],
     state |-> evt_state]

\* from_window_event, Destroyed
WindowEvent_Destroyed(win_id, evt, evt_state) ==
    [event |-> [type |-> "WindowDestroyed", win_id |-> win_id],
     state |-> window_destroyed(evt_state, win_id)]

\* mutant: Escape marks every tracked button cancelled, held or not
escape_pressed_all(evt_state) ==
    [evt_state EXCEPT !.mouse_left.cancelled = TRUE,
                      !.mouse_right.cancelled = TRUE,
                      !.mouse_middle.cancelled = TRUE]

\* from_window_event, KeyboardInput: the arm for (Pressed, Some(Escape))
escape_pressed(evt_state) ==
    LET s1 == IF evt_state.mouse_left.pressed
              THEN [evt_state EXCEPT !.mouse_left.cancelled = TRUE] ELSE evt_state
        s2 == IF s1.mouse_right.pressed
              THEN [s1 EXCEPT !.mouse_right.cancelled = TRUE] ELSE s1
        s3 == IF s2.mouse_middle.pressed
              THEN [s2 EXCEPT !.mouse_middle.cancelled = TRUE] ELSE s2
    IN  s3

\* from_window_event, KeyboardInput
WindowEvent_KeyboardInput(win_id, evt, evt_state) ==
    LET s == IF evt.state = "Pressed" /\ evt.virtual_keycode = "Escape"
             THEN escape_pressed(evt_state)
             ELSE evt_state
    IN  [event |-> [type |-> IF evt.state = "Pressed" THEN "KeyDown" ELSE "KeyUp",
                    win_id |-> win_id,
                    device_id |-> evt.device_id,
                    code |-> evt.scancode,
                    vkey |-> evt.virtual_keycode],
         state |-> s]

\* from_window_event, CursorMoved
WindowEvent_CursorMoved(win_id, evt, evt_state) ==
    LET g == get_or_create_win(evt_state, win_id)
        f == g.state.windows[g.idx].hidpi_factor
        pos == from_physical_position_f64(evt.position, f)
        s1 == [g.state EXCEPT !.mouse_pos = pos]
        s2 == IF ~is_any_mouse_button_pressed(s1)
              THEN [s1 EXCEPT !.mouse_activity_start = pos]
              ELSE s1
    IN  [event |-> [type |-> "MouseMove", win_id |-> win_id,
                    device_id |-> evt.device_id, pos |-> pos],
         state |-> s2]

\* from_window_event, CursorEntered
WindowEvent_CursorEntered(win_id, evt, evt_state) ==
    [event |-> [type |-> "MouseWindowEnter", win_id |-> win_id,
                device_id |-> evt.device_id],
     state |-> [evt_state EXCEPT !.mouse_in_window = TRUE]]

\* from_window_event, CursorLeft
WindowEvent_CursorLeft(win_id, evt, evt_state) ==
    [event |-> [type |-> "MouseWindowLeave", win_id |-> win_id,
                device_id |-> evt.device_id],
     state |-> [evt_state EXCEPT !.mouse_in_window = FALSE]]

\* mutant: a press does not clear the cancelled flag
mouse_pressed_keep_cancelled(evt_state, button) ==
    LET pos == evt_state.mouse_pos
        d == mouse_data_for(button)
    IN  IF d # "none"
        THEN [evt_state EXCEPT ![d].pressed = TRUE, ![d].pressed_at = pos]
        ELSE evt_state

\* mutant: a press records the start of the mouse activity as its origin
mouse_pressed_at_activity_start(evt_state, button) ==
    LET pos == evt_state.mouse_activity_start
        d == mouse_data_for(button)
    IN  IF d # "none"
        THEN [evt_state EXCEPT ![d].pressed = TRUE,
                               ![d].pressed_at = pos,
                               ![d].cancelled = FALSE]
        ELSE evt_state

\* mutant: a press also restarts the mouse activity at the current position
mouse_pressed_restarting(evt_state, button) ==
    LET pos == evt_state.mouse_pos
        d == mouse_data_for(button)
    IN  IF d # "none"
        THEN [evt_state EXCEPT ![d].pressed = TRUE,
                               ![d].pressed_at = pos,
                               ![d].cancelled = FALSE,
                               !.mouse_activity_start = pos]
        ELSE evt_state

\* from_window_event, MouseInput: what the Pressed arm does to the state
mouse_pressed(evt_state, button) ==
    LET pos == evt_state.mouse_pos
        d == mouse_data_for(button)
    IN  IF d # "none"
        THEN [evt_state EXCEPT ![d].pressed = TRUE,
                               ![d].pressed_at = pos,
                               ![d].cancelled = FALSE]
        ELSE evt_state

\* mutant: a release also clears the cancelled flag
mouse_released_clear_cancelled(evt_state, button) ==
    LET d == mouse_data_for(button)
    IN  IF d # "none"
        THEN [evt_state EXCEPT ![d].pressed = FALSE, ![d].cancelled = FALSE]
        ELSE evt_state

\* from_window_event, MouseInput: what the Released arm does to the state
mouse_released(evt_state, button) ==
    LET d == mouse_data_for(button)
    IN  IF d # "none"
        THEN [evt_state EXCEPT ![d].pressed = FALSE]
        ELSE evt_state

\* from_window_event, MouseInput
WindowEvent_MouseInput(win_id, evt, evt_state) ==
    IF evt.state = "Pressed"
    THEN [event |-> [type |-> "MouseDown", win_id |-> win_id,
                     device_id |-> evt.device_id,
                     button |-> MouseButton_from_gl(evt.button)],
          state |-> mouse_pressed(evt_state, evt.button)]
    ELSE [event |-> [type |-> "MouseUp", win_id |-> win_id,
                     device_id |-> evt.device_id,
                     button |-> MouseButton_from_gl(evt.button)],
          state |-> mouse_released(evt_state, evt.button)]

\* mutant: the DPI change also re-tags the stored size with the new factor
WindowEvent_ScaleFactorChanged_rescaling(win_id, evt, evt_state) ==
    LET factor == evt.scale_factor
        g == get_or_create_win(evt_state, win_id)
    IN  [event |-> [type |-> "HiDpiFactorChanged", win_id |-> win_id,
                    factor |-> factor],
         state |-> [g.state EXCEPT !.windows[g.idx].hidpi_factor = factor,
                                   !.windows[g.idx].dim.hidpi_factor = factor]]

\* from_window_event, ScaleFactorChanged
WindowEvent_ScaleFactorChanged(win_id, evt, evt_state) ==
    LET factor == evt.scale_factor
        g == get_or_create_win(evt_state, win_id)
    IN  [event |-> [type |-> "HiDpiFactorChanged", win_id |-> win_id,
                    factor |-> factor],
         state |-> [g.state EXCEPT !.windows[g.idx].hidpi_factor = factor]]

\* mutant: the focus arm resolves the window's registry entry first
WindowEvent_Focused_resolving(win_id, evt, evt_state) ==
    [event |-> [type |-> IF evt.focused THEN "WindowFocus" ELSE "WindowBlur",
                win_id |-> win_id],
     state |-> get_or_create_win(evt_state, win_id).state]

\* from_window_event, Focused
WindowEvent_Focused(win_id, evt, evt_state) ==
    [event |-> [type |-> IF evt.focused THEN "WindowFocus" ELSE "WindowBlur",
                win_id |-> win_id],
     state |-> evt_state]

\* from_window_event, DroppedFile, HoveredFile and HoveredFileCancelled
WindowEvent_File(win_id, evt, evt_state) ==
    [event |-> CASE evt.kind = "DroppedFile" ->
                        [type |-> "FileDrop", win_id |-> win_id, path |-> evt.path]
                 [] evt.kind = "HoveredFile" ->
                        [type |-> "FileHover", win_id |-> win_id, path |-> evt.path]
                 [] evt.kind = "HoveredFileCancelled" ->
                        [type |-> "FileCancel", win_id |-> win_id],
     state |-> evt_state]

\* mutant: the test for control characters stops one code point early
text_char_short_range(ch) ==
    IF ch <= 30
    THEN IF ch = 9 THEN Some(ch)
         ELSE IF ch = 13 THEN Some(10)
         ELSE None
    ELSE IF ch = 127 THEN None
    ELSE Some(ch)

\* Event::text_char, on code points
text_char(ch) ==
    IF ch <= 31
    THEN IF ch = 9 THEN Some(ch)
         ELSE IF ch = 13 THEN Some(10)
         ELSE None
    ELSE IF ch = 127 THEN None
    ELSE Some(ch)

\* from_window_event, ReceivedCharacter
\* mutant: the alt flag, not the ctrl flag, suppresses the character
WindowEvent_ReceivedCharacter_alt(win_id, evt, evt_state) ==
    [event |-> IF evt_state.alt_down
               THEN [type |-> "KeyText", win_id |-> win_id,
                     codepoint |-> evt.codepoint, ch |-> None]
               ELSE [type |-> "KeyText", win_id |-> win_id,
                     codepoint |-> evt.codepoint, ch |-> text_char(evt.codepoint)],
     state |-> evt_state]

WindowEvent_ReceivedCharacter(win_id, evt, evt_state) ==
    [event |-> IF evt_state.ctrl_down
               THEN [type |-> "KeyText", win_id |-> win_id,
                     codepoint |-> evt.codepoint, ch |-> None]
               ELSE [type |-> "KeyText", win_id |-> win_id,
                     codepoint |-> evt.codepoint, ch |-> text_char(evt.codepoint)],
     state |-> evt_state]

\* TouchPhase::from_gl
TouchPhase_from_gl(phase) == phase

\* from_window_event, MouseWheel
WindowEvent_MouseWheel(win_id, evt, evt_state) ==
    LET g == get_or_create_win(evt_state, win_id)
        f == g.state.windows[g.idx].hidpi_factor
    IN  IF evt.delta_kind = "LineDelta"
        THEN [event |-> [type |-> "MouseWheel", win_id |-> win_id,
                         device_id |-> evt.device_id,
                         delta |-> from_line_delta(evt.delta[1], evt.delta[2],
                                                   g.state.logical_line_height, f),
                         delta_line |-> Some(evt.delta),
                         phase |-> TouchPhase_from_gl(evt.phase)],
              state |-> g.state]
        ELSE [event |-> [type |-> "MouseWheel", win_id |-> win_id,
                         device_id |-> evt.device_id,
                         delta |-> from_physical_position_f64(evt.delta, f),
                         delta_line |-> None,
                         phase |-> TouchPhase_from_gl(evt.phase)],
              state |-> g.state]

\* from_window_event, AxisMotion
WindowEvent_AxisMotion(win_id, evt, evt_state) ==
    [event |-> [type |-> "AxisMotion", win_id |-> win_id,
                device_id |-> evt.device_id, axis |-> evt.axis, delta |-> evt.value],
     state |-> evt_state]

\* from_window_event, TouchpadPressure
WindowEvent_TouchpadPressure(win_id, evt, evt_state) ==
    [event |-> [type |-> "TouchpadPressure", win_id |-> win_id,
                device_id |-> evt.device_id, pressure |-> evt.pressure,
                stage |-> evt.stage],
     state |-> evt_state]

\* from_window_event, Touch
WindowEvent_Touch(win_id, evt, evt_state) ==
    LET g == get_or_create_win(evt_state, win_id)
        f == g.state.windows[g.idx].hidpi_factor
        s == from_physical_position_f64(evt.location, f)
    IN  [event |-> [type |-> "Touch", win_id |-> win_id,
                    device_id |-> evt.device_id, finger |-> evt.id,
                    pos |-> s, phase |-> TouchPhase_from_gl(evt.phase)],
         state |-> g.state]

\* mutant: the ctrl and alt values are stored in each other's flag
set_modifiers_crossed(state, modifiers) ==
    [state EXCEPT !.shift_down = modifiers.shift,
                  !.ctrl_down = modifiers.alt,
                  !.alt_down = modifiers.ctrl,
                  !.logo_down = modifiers.logo]

\* Event::set_modifiers
set_modifiers(state, modifiers) ==
    [state EXCEPT !.shift_down = modifiers.shift,
                  !.ctrl_down = modifiers.ctrl,
                  !.alt_down = modifiers.alt,
                  !.logo_down = modifiers.logo]

\* from_window_event, ModifiersChanged
WindowEvent_ModifiersChanged(win_id, evt, evt_state) ==
    [event |-> [type |-> "ModifiersChanged"],
     state |-> set_modifiers(evt_state, evt.modifiers)]

\* Event::from_window_event
from_window_event(win_id, evt, evt_state) ==
    CASE evt.kind = "Resized" -> WindowEvent_Resized(win_id, evt, evt_state)
      [] evt.kind = "Moved" -> WindowEvent_Moved(win_id, evt, evt_state)
      [] evt.kind = "CloseRequested" -> WindowEvent_CloseRequested(win_id, evt, evt_state)
      [] evt.kind = "Destroyed" -> WindowEvent_Destroyed(win_id, evt, evt_state)
      [] evt.kind = "KeyboardInput" -> WindowEvent_KeyboardInput(win_id, evt, evt_state)
      [] evt.kind = "CursorMoved" -> WindowEvent_CursorMoved(win_id, evt, evt_state)
      [] evt.kind = "CursorEntered" -> WindowEvent_CursorEntered(win_id, evt, evt_state)
      [] evt.kind = "CursorLeft" -> WindowEvent_CursorLeft(win_id, evt, evt_state)
      [] evt.kind = "MouseInput" -> WindowEvent_MouseInput(win_id, evt, evt_state)
      [] evt.kind = "ScaleFactorChanged" ->
             WindowEvent_ScaleFactorChanged(win_id, evt, evt_state)
      [] evt.kind = "Focused" -> WindowEvent_Focused(win_id, evt, evt_state)
      [] evt.kind \in {"DroppedFile", "HoveredFile", "HoveredFileCancelled"} ->
             WindowEvent_File(win_id, evt, evt_state)
      [] evt.kind = "ReceivedCharacter" ->
             WindowEvent_ReceivedCharacter(win_id, evt, evt_state)
      [] evt.kind = "MouseWheel" -> WindowEvent_MouseWheel(win_id, evt, evt_state)
      [] evt.kind = "AxisMotion" -> WindowEvent_AxisMotion(win_id, evt, evt_state)
      [] evt.kind = "TouchpadPressure" ->
             WindowEvent_TouchpadPressure(win_id, evt, evt_state)
      [] evt.kind = "Touch" -> WindowEvent_Touch(win_id, evt, evt_state)
      [] evt.kind = "ModifiersChanged" ->
             WindowEvent_ModifiersChanged(win_id, evt, evt_state)
      [] evt.kind = "ThemeChanged" ->
             [event |-> [type |-> "Placeholder"], state |-> evt_state]

\* from_device_event, MouseWheel
\* mutant: the wheel resolves its factor through the registry's lazy
\* creation, for the identity of the display's window
DeviceEvent_MouseWheel_registering(device_id, evt, state) ==
    LET g == get_or_create_win(state, "w1")
        f == g.state.windows[g.idx].hidpi_factor
    IN  IF evt.delta_kind = "LineDelta"
        THEN [event |-> [type |-> "AnywhereMouseWheel", device_id |-> device_id,
                         delta |-> from_line_delta(evt.delta[1], evt.delta[2],
                                                   state.logical_line_height, f),
                         delta_line |-> Some(evt.delta)],
              state |-> g.state]
        ELSE [event |-> [type |-> "AnywhereMouseWheel", device_id |-> device_id,
                         delta |-> from_physical_position_f64(evt.delta, f),
                         delta_line |-> None],
              state |-> g.state]

DeviceEvent_MouseWheel(device_id, evt, state) ==
    LET f == hidpi_factor_r32(state)
    IN  IF evt.delta_kind = "LineDelta"
        THEN [event |-> [type |-> "AnywhereMouseWheel", device_id |-> device_id,
                         delta |-> from_line_delta(evt.delta[1], evt.delta[2],
                                                   state.logical_line_height, f),
                         delta_line |-> Some(evt.delta)],
              state |-> state]
        ELSE [event |-> [type |-> "AnywhereMouseWheel", device_id |-> device_id,
                         delta |-> from_physical_position_f64(evt.delta, f),
                         delta_line |-> None],
              state |-> state]

\* Event::from_device_event
from_device_event(device_id, evt, state) ==
    CASE evt.kind = "Added" ->
             [event |-> [type |-> "DeviceAdded", device_id |-> device_id],
              state |-> state]
      [] evt.kind = "Removed" ->
             [event |-> [type |-> "DeviceRemoved", device_id |-> device_id],
              state |-> state]
      [] evt.kind = "MouseMotion" ->
             [event |-> [type |-> "MouseMotion", device_id |-> device_id,
                         delta |-> evt.delta],
              state |-> state]
      [] evt.kind = "MouseWheel" -> DeviceEvent_MouseWheel(device_id, evt, state)
      [] evt.kind = "Motion" ->
             [event |-> [type |-> "DeviceMotion", device_id |-> device_id,
                         axis |-> evt.axis, delta |-> evt.value],
              state |-> state]
      [] evt.kind = "Button" ->
             [event |-> [type |-> IF evt.state = "Pressed"
                                  THEN "DeviceButtonDown" ELSE "DeviceButtonUp",
                         device_id |-> device_id, button |-> evt.button],
              state |-> state]
      [] evt.kind = "Key" ->
             [event |-> [type |-> IF evt.state = "Pressed"
                                  THEN "DeviceKeyDown" ELSE "DeviceKeyUp",
                         device_id |-> device_id, code |-> evt.scancode,
                         vkey |-> evt.virtual_keycode],
              state |-> state]
      [] evt.kind = "Text" ->
             [event |-> [type |-> "DeviceText", device_id |-> device_id,
                         codepoint |-> evt.codepoint,
                         ch |-> text_char(evt.codepoint)],
              state |-> state]

\* mutant: the start of a loop iteration is reported as AppAwaken
from_gl_awaken(src, state) ==
    CASE src.scope = "window" -> from_window_event(src.window_id, src, state)
      [] src.scope = "device" -> from_device_event(src.device_id, src, state)
      [] src.scope = "app" /\ src.kind = "Suspended" ->
             [event |-> [type |-> "AppSuspend"], state |-> state]
      [] src.scope = "app" /\ src.kind = "Resumed" ->
             [event |-> [type |-> "AppResume"], state |-> state]
      [] src.scope = "app" /\ src.kind \in {"RedrawRequested", "RedrawEventsCleared"} ->
             [event |-> [type |-> "Redraw"], state |-> state]
      [] src.scope = "app" /\ src.kind = "NewEvents" ->
             [event |-> [type |-> "AppAwaken"], state |-> state]
      [] src.scope = "app" /\ src.kind \in {"UserEvent", "MainEventsCleared",
                                            "LoopDestroyed"} ->
             [event |-> [type |-> "Placeholder"], state |-> state]

\* Event::from_gl
from_gl(src, state) ==
    CASE src.scope = "window" -> from_window_event(src.window_id, src, state)
      [] src.scope = "device" -> from_device_event(src.device_id, src, state)
      [] src.scope = "app" /\ src.kind = "Suspended" ->
             [event |-> [type |-> "AppSuspend"], state |-> state]
      [] src.scope = "app" /\ src.kind = "Resumed" ->
             [event |-> [type |-> "AppResume"], state |-> state]
      [] src.scope = "app" /\ src.kind \in {"RedrawRequested", "RedrawEventsCleared"} ->
             [event |-> [type |-> "Redraw"], state |-> state]
      [] src.scope = "app" /\ src.kind \in {"NewEvents", "UserEvent",
                                            "MainEventsCleared", "LoopDestroyed"} ->
             [event |-> [type |-> "Placeholder"], state |-> state]

(***************************************************************************)
(* The inputs of the host loop                                             *)
(***************************************************************************)
\* window identities; the display's own window is PrimaryWindow
PrimaryWindow == "w1"
WindowIds == {"w1", "w2", "w3"}
\* scale factors a display or a DPI-change notification reports
Factors == {1, 2}
\* framebuffer sizes of the display (physical)
Framebuffers == {<<800, 600>>}
\* cursor positions the backend reports (physical)
CursorPositions == {<<20, 20>>, <<20, 80>>}
\* sizes and positions of window notifications (physical)
WindowSizes == {<<400, 200>>}
WindowPositions == {<<0, 40>>}
ElementStates == {"Pressed", "Released"}
Tracked == {"Left", "Middle", "Right"}
MouseButtons == Tracked \cup {"Other"}
\* keys: a scan code with its virtual key code
Keys == {<<1, "Escape">>, <<30, "A">>}
DeviceIds == {"d1"}

\* the raw window events of the kinds that resolve a scale factor
ScaleResolving(src) ==
    /\ src.scope = "window"
    /\ src.kind \in {"Resized", "Moved", "CursorMoved", "MouseWheel", "Touch",
                     "ScaleFactorChanged"}

\* the identities a registry holds
Registered(windows) == {windows[i].id : i \in 1..Len(windows)}

InSeq(x, seq) == \E i \in 1..Len(seq) : seq[i] = x

NoEvent == [scope |-> "none", kind |-> "none"]

\* a ModifiersState: which of the four modifiers are down
Modifiers(shift, ctrl, alt, logo) ==
    [shift |-> shift, ctrl |-> ctrl, alt |-> alt, logo |-> logo]

NoModifiers == Modifiers(FALSE, FALSE, FALSE, FALSE)

\* a call either returns a value or faults (panics)
Fault == [fault |-> TRUE]
Returned(v) == [fault |-> FALSE, value |-> v]

NoCall == [op |-> "none"]

(***************************************************************************)
(* States after construction                                               *)
(***************************************************************************)
\* TimeStep::for_freq_ms(500) with the example's max_missed, not yet ticked
StepIdle ==
    /\ now = 0
    /\ twin_shift = 0
    /\ ts = max_missed_steps_before_discard(for_freq_ms(500, 0), 1)
    /\ twin = max_missed_steps_before_discard(for_freq_ms(500, 0), 1)
    /\ fired = 0
    /\ twin_fired = 0
    /\ dur = -1
    /\ carry = 0

\* what has been observed of an EventState to which no event was delivered
Unobserved ==
    /\ ret = [type |-> "Placeholder"]
    /\ raw = NoEvent
    /\ pre_windows = es.windows
    /\ relooked = FALSE
    /\ last_op = [b \in Tracked |-> "none"]
    /\ after_cancel = [b \in Tracked |-> "none"]
    /\ press_pos = [b \in Tracked |-> <<0, 0>>]
    /\ drag_origin = <<0, 0>>
    /\ reg_order = <<PrimaryWindow>>
    /\ last_mods = NoModifiers
    /\ call = NoCall
    /\ outcome = Returned("nothing")

\* EventState::new on a display with one of these scale factors
Constructed(factors) ==
    /\ \E f \in factors, fb \in Framebuffers :
         es = EventState_new(f, PrimaryWindow, fb)
    /\ Unobserved

\* EventState::new on a display of scale factor 1
EvtIdle ==
    /\ es = EventState_new(1, PrimaryWindow, <<800, 600>>)
    /\ Unobserved

(***************************************************************************)
(* StepSpec: the host loop polls the stepper.                              *)
(***************************************************************************)
StepInit ==
    /\ now \in StartInstants
    /\ twin_shift \in TwinShifts
    /\ \E f \in FreqMsecs, m \in 0..MaxMissed, builder \in BOOLEAN :
         /\ ts = IF builder
                 THEN max_missed_steps_before_discard(for_freq_ms(f, now), m)
                 ELSE for_freq_ms(f, now)
         /\ twin = IF builder
                   THEN max_missed_steps_before_discard(for_freq_ms(f, now + twin_shift), m)
                   ELSE for_freq_ms(f, now + twin_shift)
    /\ fired = 0
    /\ twin_fired = 0
    /\ dur = -1
    /\ carry = 0
    /\ EvtIdle

\* d ms pass, then both steppers are ticked, each on its own clock
Tick(d) ==
    /\ now + d <= MaxClockMs
    /\ (ts.elapsed_nanos \div NanosPerMs) + d <= MaxBacklogMs
    /\ (twin.elapsed_nanos \div NanosPerMs) + d <= MaxBacklogMs
    /\ now' = now + d
    /\ LET r == tick(ts, now')
           t == tick(twin, now' + twin_shift)
       IN  /\ ts' = r.self
           /\ fired' = r.calls
           /\ twin' = t.self
           /\ twin_fired' = t.calls
    /\ dur' = d
    /\ carry' = ts.elapsed_nanos
    /\ UNCHANGED <<twin_shift, evtVars, cfgVars>>

StepNext == \E d \in Durations : Tick(d)

StepSpec == StepInit /\ [][StepNext]_vars

(***************************************************************************)
(* The host loop delivers one raw event: Event::from_gl(&event, &mut es)   *)
(***************************************************************************)
IsPress(src, b) ==
    /\ src.scope = "window" /\ src.kind = "MouseInput"
    /\ src.state = "Pressed" /\ src.button = b

IsRelease(src, b) ==
    /\ src.scope = "window" /\ src.kind = "MouseInput"
    /\ src.state = "Released" /\ src.button = b

\* the cancel operation: a window-scoped key-down of Escape
IsCancel(src) ==
    /\ src.scope = "window" /\ src.kind = "KeyboardInput"
    /\ src.state = "Pressed" /\ src.virtual_keycode = "Escape"

\* the history variables after src is delivered
Observe(src) ==
    /\ raw' = src
    /\ pre_windows' = es.windows
    /\ relooked' = /\ ScaleResolving(src)
                   /\ ScaleResolving(raw)
                   /\ src.window_id = raw.window_id
                   /\ raw.window_id \notin Registered(pre_windows)
    /\ last_op' = [b \in Tracked |->
                      IF IsPress(src, b) THEN "press"
                      ELSE IF IsRelease(src, b) THEN "release"
                      ELSE last_op[b]]
    /\ after_cancel' = [b \in Tracked |->
                      IF IsPress(src, b) THEN "none"
                      ELSE IF IsCancel(src) /\ last_op[b] = "press" THEN "cancel"
                      ELSE IF IsRelease(src, b) /\ after_cancel[b] = "cancel"
                           THEN "released"
                      ELSE after_cancel[b]]
    /\ press_pos' = [b \in Tracked |->
                      IF IsPress(src, b) THEN es.mouse_pos.logical ELSE press_pos[b]]
    /\ drag_origin' = IF /\ \E b \in Tracked : IsPress(src, b)
                         /\ \A b \in Tracked : last_op[b] # "press"
                      THEN es.mouse_pos.logical
                      ELSE drag_origin
    /\ reg_order' = IF ScaleResolving(src) /\ ~InSeq(src.window_id, reg_order)
                    THEN Append(reg_order, src.window_id)
                    ELSE IF src.scope = "window" /\ src.kind = "Destroyed"
                         THEN SelectSeq(reg_order, LAMBDA id : id # src.window_id)
                         ELSE reg_order
    /\ last_mods' = IF src.scope = "window" /\ src.kind = "ModifiersChanged"
                    THEN src.modifiers
                    ELSE last_mods

Deliver(src) ==
    /\ LET r == from_gl(src, es)
       IN  /\ es' = r.state
           /\ ret' = r.event
    /\ Observe(src)

Resized(w, size) ==
    /\ Deliver([scope |-> "window", window_id |-> w, kind |-> "Resized", size |-> size])
    /\ UNCHANGED <<stepVars, cfgVars>>

Moved(w, pos) ==
    /\ Deliver([scope |-> "window", window_id |-> w, kind |-> "Moved", position |-> pos])
    /\ UNCHANGED <<stepVars, cfgVars>>

CloseRequested(w) ==
    /\ Deliver([scope |-> "window", window_id |-> w, kind |-> "CloseRequested"])
    /\ UNCHANGED <<stepVars, cfgVars>>

Destroyed(w) ==
    /\ Deliver([scope |-> "window", window_id |-> w, kind |-> "Destroyed"])
    /\ UNCHANGED <<stepVars, cfgVars>>

KeyboardInput(w, d, st, k) ==
    /\ Deliver([scope |-> "window", window_id |-> w, kind |-> "KeyboardInput",
                device_id |-> d, state |-> st, scancode |-> k[1],
                virtual_keycode |-> k[2]])
    /\ UNCHANGED <<stepVars, cfgVars>>

CursorMoved(w, d, pos) ==
    /\ Deliver([scope |-> "window", window_id |-> w, kind |-> "CursorMoved",
                device_id |-> d, position |-> pos])
    /\ UNCHANGED <<stepVars, cfgVars>>

MouseInput(w, d, st, b) ==
    /\ Deliver([scope |-> "window", window_id |-> w, kind |-> "MouseInput",
                device_id |-> d, state |-> st, button |-> b])
    /\ UNCHANGED <<stepVars, cfgVars>>

ScaleFactorChanged(w, f) ==
    /\ Deliver([scope |-> "window", window_id |-> w, kind |-> "ScaleFactorChanged",
                scale_factor |-> f])
    /\ UNCHANGED <<stepVars, cfgVars>>

Focused(w, focused) ==
    /\ Deliver([scope |-> "window", window_id |-> w, kind |-> "Focused",
                focused |-> focused])
    /\ UNCHANGED <<stepVars, cfgVars>>

DroppedFile(w, path) ==
    /\ Deliver([scope |-> "window", window_id |-> w, kind |-> "DroppedFile",
                path |-> path])
    /\ UNCHANGED <<stepVars, cfgVars>>

HoveredFile(w, path) ==
    /\ Deliver([scope |-> "window", window_id |-> w, kind |-> "HoveredFile",
                path |-> path])
    /\ UNCHANGED <<stepVars, cfgVars>>

HoveredFileCancelled(w) ==
    /\ Deliver([scope |-> "window", window_id |-> w, kind |-> "HoveredFileCancelled"])
    /\ UNCHANGED <<stepVars, cfgVars>>

ReceivedCharacter(w, c) ==
    /\ Deliver([scope |-> "window", window_id |-> w, kind |-> "ReceivedCharacter",
                codepoint |-> c])
    /\ UNCHANGED <<stepVars, cfgVars>>

CursorEntered(w, d) ==
    /\ Deliver([scope |-> "window", window_id |-> w, kind |-> "CursorEntered",
                device_id |-> d])
    /\ UNCHANGED <<stepVars, cfgVars>>

CursorLeft(w, d) ==
    /\ Deliver([scope |-> "window", window_id |-> w, kind |-> "CursorLeft",
                device_id |-> d])
    /\ UNCHANGED <<stepVars, cfgVars>>

MouseWheel(w, d, delta_kind, delta) ==
    /\ Deliver([scope |-> "window", window_id |-> w, kind |-> "MouseWheel",
                device_id |-> d, delta_kind |-> delta_kind, delta |-> delta,
                phase |-> "Moved"])
    /\ UNCHANGED <<stepVars, cfgVars>>

AxisMotion(w, d) ==
    /\ Deliver([scope |-> "window", window_id |-> w, kind |-> "AxisMotion",
                device_id |-> d, axis |-> 0, value |-> 1])
    /\ UNCHANGED <<stepVars, cfgVars>>

TouchpadPressure(w, d) ==
    /\ Deliver([scope |-> "window", window_id |-> w, kind |-> "TouchpadPressure",
                device_id |-> d, pressure |-> 1, stage |-> 1])
    /\ UNCHANGED <<stepVars, cfgVars>>

Touch(w, d, location) ==
    /\ Deliver([scope |-> "window", window_id |-> w, kind |-> "Touch",
                device_id |-> d, id |-> 0, location |-> location,
                phase |-> "Started"])
    /\ UNCHANGED <<stepVars, cfgVars>>

ModifiersChanged(w, m) ==
    /\ Deliver([scope |-> "window", window_id |-> w, kind |-> "ModifiersChanged",
                modifiers |-> m])
    /\ UNCHANGED <<stepVars, cfgVars>>

ThemeChanged(w) ==
    /\ Deliver([scope |-> "window", window_id |-> w, kind |-> "ThemeChanged"])
    /\ UNCHANGED <<stepVars, cfgVars>>

DeviceAdded(d) ==
    /\ Deliver([scope |-> "device", device_id |-> d, kind |-> "Added"])
    /\ UNCHANGED <<stepVars, cfgVars>>

DeviceRemoved(d) ==
    /\ Deliver([scope |-> "device", device_id |-> d, kind |-> "Removed"])
    /\ UNCHANGED <<stepVars, cfgVars>>

DeviceMouseMotion(d, delta) ==
    /\ Deliver([scope |-> "device", device_id |-> d, kind |-> "MouseMotion",
                delta |-> delta])
    /\ UNCHANGED <<stepVars, cfgVars>>

DeviceMouseWheel(d, delta_kind, delta) ==
    /\ Deliver([scope |-> "device", device_id |-> d, kind |-> "MouseWheel",
                delta_kind |-> delta_kind, delta |-> delta])
    /\ UNCHANGED <<stepVars, cfgVars>>

DeviceMotion(d) ==
    /\ Deliver([scope |-> "device", device_id |-> d, kind |-> "Motion",
                axis |-> 0, value |-> 1])
    /\ UNCHANGED <<stepVars, cfgVars>>

DeviceButton(d, st) ==
    /\ Deliver([scope |-> "device", device_id |-> d, kind |-> "Button",
                button |-> 1, state |-> st])
    /\ UNCHANGED <<stepVars, cfgVars>>

DeviceKey(d, st, k) ==
    /\ Deliver([scope |-> "device", device_id |-> d, kind |-> "Key",
                state |-> st, scancode |-> k[1], virtual_keycode |-> k[2]])
    /\ UNCHANGED <<stepVars, cfgVars>>

DeviceText(d, c) ==
    /\ Deliver([scope |-> "device", device_id |-> d, kind |-> "Text",
                codepoint |-> c])
    /\ UNCHANGED <<stepVars, cfgVars>>

\* the raw events that carry neither a window nor a device
AppEvent(kind) ==
    /\ Deliver([scope |-> "app", kind |-> kind])
    /\ UNCHANGED <<stepVars, cfgVars>>

(***************************************************************************)
(* MouseSpec: mouse buttons, the cancel key and the cursor, in the         *)
(* display's window.                                                       *)
(***************************************************************************)
\* the display is a HiDPI one
MouseInit == Constructed({2}) /\ StepIdle

MouseNext ==
    \/ \E d \in DeviceIds, st \in ElementStates, b \in MouseButtons :
         MouseInput(PrimaryWindow, d, st, b)
    \/ \E d \in DeviceIds, st \in ElementStates, k \in Keys :
         KeyboardInput(PrimaryWindow, d, st, k)
    \/ \E d \in DeviceIds, pos \in CursorPositions :
         CursorMoved(PrimaryWindow, d, pos)

MouseSpec == MouseInit /\ [][MouseNext]_vars

(***************************************************************************)
(* RegSpec: the window registry under window notifications.                *)
(***************************************************************************)
RegInit == Constructed(Factors) /\ StepIdle

RegNext ==
    \/ \E w \in WindowIds, pos \in WindowPositions : Moved(w, pos)
    \/ \E w \in WindowIds : CloseRequested(w)
    \/ \E w \in WindowIds : Destroyed(w)
    \/ \E w \in WindowIds, f \in Factors : ScaleFactorChanged(w, f)

RegSpec == RegInit /\ [][RegNext]_vars

(***************************************************************************)
(* HostSpec: the host loop delivers raw events of every shape, for two     *)
(* windows, on a display of scale factor 1.                                *)
(***************************************************************************)
HostWindows == {"w1", "w2"}
AppEventKinds == {"Suspended", "Resumed", "RedrawRequested", "RedrawEventsCleared",
                  "NewEvents", "UserEvent", "MainEventsCleared", "LoopDestroyed"}
WheelDeltaKinds == {"LineDelta", "PixelDelta"}
\* a wheel movement of two lines down, or of twenty physical pixels
WheelDelta == <<0, 20>>
Paths == {"a.txt"}

HostInit == EvtIdle /\ StepIdle

HostNext ==
    \/ \E w \in HostWindows, size \in WindowSizes : Resized(w, size)
    \/ \E w \in HostWindows, pos \in WindowPositions : Moved(w, pos)
    \/ \E w \in HostWindows : CloseRequested(w)
    \/ \E w \in HostWindows : Destroyed(w)
    \/ \E w \in HostWindows, focused \in BOOLEAN : Focused(w, focused)
    \/ \E w \in HostWindows, path \in Paths : DroppedFile(w, path)
    \/ \E w \in HostWindows, path \in Paths : HoveredFile(w, path)
    \/ \E w \in HostWindows : HoveredFileCancelled(w)
    \/ \E w \in HostWindows : ReceivedCharacter(w, 65)
    \/ \E w \in HostWindows, d \in DeviceIds : KeyboardInput(w, d, "Pressed", <<30, "A">>)
    \/ \E w \in HostWindows, d \in DeviceIds : CursorMoved(w, d, <<20, 80>>)
    \/ \E w \in HostWindows, d \in DeviceIds : CursorEntered(w, d)
    \/ \E w \in HostWindows, d \in DeviceIds : CursorLeft(w, d)
    \/ \E w \in HostWindows, d \in DeviceIds, k \in WheelDeltaKinds :
         MouseWheel(w, d, k, WheelDelta)
    \/ \E w \in HostWindows, d \in DeviceIds, st \in ElementStates :
         MouseInput(w, d, st, "Left")
    \/ \E w \in HostWindows, d \in DeviceIds : AxisMotion(w, d)
    \/ \E w \in HostWindows, d \in DeviceIds : TouchpadPressure(w, d)
    \/ \E w \in HostWindows, d \in DeviceIds : Touch(w, d, <<20, 80>>)
    \/ \E w \in HostWindows : ScaleFactorChanged(w, 1)
    \/ \E w \in HostWindows :
         ModifiersChanged(w, Modifiers(TRUE, FALSE, FALSE, FALSE))
    \/ \E w \in HostWindows : ThemeChanged(w)
    \/ \E d \in DeviceIds : DeviceAdded(d)
    \/ \E d \in DeviceIds : DeviceRemoved(d)
    \/ \E d \in DeviceIds : DeviceMouseMotion(d, <<1, 1>>)
    \/ \E d \in DeviceIds, k \in WheelDeltaKinds : DeviceMouseWheel(d, k, WheelDelta)
    \/ \E d \in DeviceIds : DeviceMotion(d)
    \/ \E d \in DeviceIds, st \in ElementStates : DeviceButton(d, st)
    \/ \E d \in DeviceIds, st \in ElementStates : DeviceKey(d, st, <<30, "A">>)
    \/ \E d \in DeviceIds : DeviceText(d, 65)
    \/ \E kind \in AppEventKinds : AppEvent(kind)

HostSpec == HostInit /\ [][HostNext]_vars

(***************************************************************************)
(* Screen2d with fractional values (src/src/screen_units.rs).  Where the   *)
(* rounding of a conversion matters, an R32 or f32 is an exact fraction    *)
(* [n, d] in lowest terms with d > 0, and an i32 or u32 is an integer.     *)
(***************************************************************************)
abs(a) == IF a < 0 THEN -a ELSE a

RECURSIVE gcd(_, _)
gcd(a, b) == IF b = 0 THEN a ELSE gcd(b, a % b)

\* the fraction n / d, for d # 0
Fr(n, d) ==
    LET sgn == IF d < 0 THEN -1 ELSE 1
        g == gcd(abs(n), abs(d))
    IN  [n |-> (sgn * n) \div g, d |-> (sgn * d) \div g]

\* impl Mul, Div and Sub for R32 (f32)
fr_mul(x, y) == Fr(x.n * y.n, x.d * y.d)
fr_div(x, y) == Fr(x.n * y.d, x.d * y.n)
fr_sub(x, y) == Fr(x.n * y.d - y.n * x.d, x.d * y.d)

\* `as f32` of an integer
as_f32(i) == Fr(i, 1)

\* f32::round followed by `as i32`: the nearest integer, a half going away
\* from zero
round(x) ==
    LET q == (2 * abs(x.n) + x.d) \div (2 * x.d)
    IN  IF x.n < 0 THEN -q ELSE q

\* Screen2d::from_logical, on fractions
Screen2d_from_logical(logical, hidpi_factor) ==
    [logical |-> <<logical[1], logical[2]>>, hidpi_factor |-> hidpi_factor]

\* mutant: the physical value is multiplied by the scale factor
Screen2d_from_physical_f32_scaling(physical, hidpi_factor) ==
    LET logical == <<fr_mul(physical[1], hidpi_factor),
                     fr_mul(physical[2], hidpi_factor)>>
    IN  Screen2d_from_logical(logical, hidpi_factor)

\* Screen2d::from_physical_f32, on fractions
Screen2d_from_physical_f32(physical, hidpi_factor) ==
    LET logical == <<fr_div(physical[1], hidpi_factor),
                     fr_div(physical[2], hidpi_factor)>>
    IN  Screen2d_from_logical(logical, hidpi_factor)

\* Screen2d::from_physical, on fractions
Screen2d_from_physical(physical, hidpi_factor) ==
    Screen2d_from_physical_f32(<<as_f32(physical[1]), as_f32(physical[2])>>,
                               hidpi_factor)

\* Screen2d::to_physical
to_physical(self, v) == round(fr_mul(v, self.hidpi_factor))

\* Screen2d::physical
physical(self) ==
    <<to_physical(self, self.logical[1]), to_physical(self, self.logical[2])>>

\* mutant: a component of zero is refused as well
physical_u32_positive(self) ==
    LET phys == physical(self)
    IN  IF phys[1] <= 0 \/ phys[2] <= 0
        THEN Fault
        ELSE Returned(<<phys[1], phys[2]>>)

\* Screen2d::physical_u32
physical_u32(self) ==
    LET phys == physical(self)
    IN  IF phys[1] < 0 \/ phys[2] < 0
        THEN Fault
        ELSE Returned(<<phys[1], phys[2]>>)

(***************************************************************************)
(* UnitSpec: the caller converts coordinate units between logical and      *)
(* physical values.                                                        *)
(***************************************************************************)
\* logical coordinates: the quarters from -2.25 to 2.25, and 7.9
UnitCoords == {Fr(n, 4) : n \in -9..9} \cup {Fr(79, 10)}
\* the second coordinate of a pair
UnitSeconds == {Fr(-1, 4), Fr(0, 1), Fr(3, 2)}
\* scale factors: 0.25, 0.5, 1, 1.5, 2
UnitFactors == {Fr(1, 4), Fr(1, 2), Fr(1, 1), Fr(3, 2), Fr(2, 1)}

\* Screen2d::physical() of the unit built from v and f
CallPhysical(v, f) ==
    /\ call' = [op |-> "physical", value |-> v, hidpi_factor |-> f]
    /\ outcome' = Returned(physical(Screen2d_from_logical(v, f)))
    /\ UNCHANGED <<stepVars, evtVars>>

\* Screen2d::physical_u32() of the unit built from v and f
CallPhysicalU32(v, f) ==
    /\ call' = [op |-> "physical_u32", value |-> v, hidpi_factor |-> f]
    /\ outcome' = physical_u32(Screen2d_from_logical(v, f))
    /\ UNCHANGED <<stepVars, evtVars>>

\* the unit built from v and f is converted to physical and back with f
RoundTrip(v, f) ==
    /\ call' = [op |-> "round_trip", value |-> v, hidpi_factor |-> f]
    /\ outcome' = Returned(Screen2d_from_physical(
                               physical(Screen2d_from_logical(v, f)), f))
    /\ UNCHANGED <<stepVars, evtVars>>

UnitInit == EvtIdle /\ StepIdle

UnitNext ==
    \/ \E x \in UnitCoords, y \in UnitSeconds, f \in UnitFactors :
         CallPhysical(<<x, y>>, f)
    \/ \E x \in UnitCoords, y \in UnitSeconds, f \in UnitFactors :
         CallPhysicalU32(<<x, y>>, f)
    \/ \E x \in UnitCoords, y \in UnitSeconds, f \in UnitFactors :
         RoundTrip(<<x, y>>, f)

UnitSpec == UnitInit /\ [][UnitNext]_vars

(***************************************************************************)
(* DpiSpec: two windows are resized and report changes of their scale      *)
(* factor, with any value the backend may carry, while the cursor moves    *)
(* over the first window and the left button goes down.                    *)
(***************************************************************************)
DpiWindows == {"w1", "w2"}
\* the scale factors a DPI-change notification carries
ReportedFactors == {-1, 0, 2}
DpiCursor == {<<20, 80>>}

\* the scale factor the handler of a scale-resolving event on w reads
ResolvedFactor(w) ==
    LET g == get_or_create_win(es, w)
    IN  g.state.windows[g.idx].hidpi_factor

DpiInit == EvtIdle /\ StepIdle

\* A physical value divided by a scale factor of 0.0 is not finite: r32
\* faults on it in a build with debug assertions, and no later state exists.
\* Deliveries that divide are made on windows whose factor is not zero.
ResizedFinite(w, size) ==
    /\ ResolvedFactor(w) # 0
    /\ Deliver([scope |-> "window", window_id |-> w, kind |-> "Resized", size |-> size])
    /\ UNCHANGED <<stepVars, cfgVars>>

CursorMovedFinite(w, d, pos) ==
    /\ ResolvedFactor(w) # 0
    /\ Deliver([scope |-> "window", window_id |-> w, kind |-> "CursorMoved",
                device_id |-> d, position |-> pos])
    /\ UNCHANGED <<stepVars, cfgVars>>

DpiNext ==
    \/ \E w \in DpiWindows, f \in ReportedFactors : ScaleFactorChanged(w, f)
    \/ \E w \in DpiWindows, size \in WindowSizes : ResizedFinite(w, size)
    \/ \E d \in DeviceIds, pos \in DpiCursor :
         CursorMovedFinite(PrimaryWindow, d, pos)
    \/ \E d \in DeviceIds :
         MouseInput(PrimaryWindow, d, "Pressed", "Left")

DpiSpec == DpiInit /\ [][DpiNext]_vars

(***************************************************************************)
(* DevSpec: devices and the application report events of every kind while  *)
(* two windows change their scale factor and are destroyed, the cursor     *)
(* moves, the left button goes down and ctrl goes down.                    *)
(***************************************************************************)
DevWindows == {"w1", "w2"}
\* the application-level events: the two of the lifecycle, a redraw, and one
\* of those that have no normalized meaning
DevAppKinds == {"Suspended", "Resumed", "RedrawRequested", "NewEvents"}

DevInit == Constructed(Factors) /\ StepIdle

DevNext ==
    \/ \E w \in DevWindows, f \in Factors : ScaleFactorChanged(w, f)
    \/ \E w \in DevWindows : Destroyed(w)
    \/ \E d \in DeviceIds : CursorMoved(PrimaryWindow, d, <<20, 80>>)
    \/ \E d \in DeviceIds : MouseInput(PrimaryWindow, d, "Pressed", "Left")
    \/ ModifiersChanged(PrimaryWindow, Modifiers(FALSE, TRUE, FALSE, FALSE))
    \/ \E d \in DeviceIds : DeviceAdded(d)
    \/ \E d \in DeviceIds : DeviceRemoved(d)
    \/ \E d \in DeviceIds : DeviceMouseMotion(d, <<1, 1>>)
    \/ \E d \in DeviceIds, k \in WheelDeltaKinds : DeviceMouseWheel(d, k, WheelDelta)
    \/ \E d \in DeviceIds : DeviceMotion(d)
    \/ \E d \in DeviceIds, st \in ElementStates : DeviceButton(d, st)
    \/ \E d \in DeviceIds, st \in ElementStates :
         DeviceKey(d, st, <<29, "LControl">>)
    \/ \E d \in DeviceIds : DeviceText(d, 65)
    \/ \E kind \in DevAppKinds : AppEvent(kind)

DevSpec == DevInit /\ [][DevNext]_vars

(***************************************************************************)
(* LoopSpec: the host loop polls the stepper, and a call of tick is        *)
(* followed through its loop, one iteration at a time.  While the call is  *)
(* in progress `call` holds the loop counter and `outcome` is Pending.     *)
(* The loop is sequential code and the callback returns, so an iteration   *)
(* that can be made is made: LoopFair adds weak fairness of Iterate.       *)
(***************************************************************************)
Pending == [pending |-> TRUE]

\* the invocations of the callback in one call are counted up to this
\* number, which no call reaches
MaxCalls == MaxMissed + 3

LoopInit ==
    /\ now \in StartInstants
    /\ twin_shift = 0
    /\ \E f \in FreqMsecs, m \in 0..MaxMissed :
         ts = max_missed_steps_before_discard(for_freq_ms(f, now), m)
    /\ twin = ts
    /\ fired = 0
    /\ twin_fired = 0
    /\ dur = -1
    /\ carry = 0
    /\ EvtIdle

\* d ms pass, then tick is called: update_elapsed is done and the loop is
\* about to evaluate its condition for the first time
EnterTick(d) ==
    /\ outcome # Pending
    /\ now + d <= MaxClockMs
    /\ (ts.elapsed_nanos \div NanosPerMs) + d <= MaxBacklogMs
    /\ now' = now + d
    /\ ts' = update_elapsed(ts, now')
    /\ fired' = 0
    /\ dur' = d
    /\ carry' = ts.elapsed_nanos
    /\ call' = [op |-> "tick", count |-> 0]
    /\ outcome' = Pending
    /\ UNCHANGED <<twin, twin_shift, twin_fired, evtVars>>

\* the loop of the call in progress evaluates its condition and, if it
\* holds, runs its body once
Iterate ==
    /\ outcome = Pending
    /\ LET r == tick_iteration(ts, call.count)
       IN  /\ ts' = r.self
           /\ fired' = IF r.called /\ fired < MaxCalls THEN fired + 1 ELSE fired
           /\ call' = [call EXCEPT !.count = r.count]
           /\ outcome' = IF r.returned THEN Returned("nothing") ELSE Pending
    /\ UNCHANGED <<now, twin, twin_shift, twin_fired, dur, carry, evtVars>>

LoopNext ==
    \/ \E d \in Durations : EnterTick(d)
    \/ Iterate

LoopSpec == LoopInit /\ [][LoopNext]_vars

LoopFair == LoopSpec /\ WF_vars(Iterate)

(***************************************************************************)
(* ConfSpec: the caller constructs coordinate units and window data and    *)
(* configures the line height.                                             *)
(***************************************************************************)
\* the public constructors of Screen2d
Screen2dCtors == {"from_logical", "from_physical", "from_physical_u32",
                  "from_physical_f32"}
\* the coordinate pairs the constructors are called with
ScreenValues == {<<0, 0>>, <<20, 40>>, <<-20, 40>>}
\* the scale factors the constructors are called with
CtorFactors == {-1, 0, 1, 2}
\* line heights (in tenths): -1.0, 0.0, 0.5, 0.9, 1.0, 1.5, 18.0, 40.0
LineHeights == {-10, 0, 5, 9, 10, 15, 180, 400}

\* what a constructor of Screen2d returns
construct(ctor, v, f) ==
    CASE ctor = "from_logical" -> from_logical(v, f)
      [] ctor = "from_physical" -> from_physical(v, f)
      [] ctor = "from_physical_u32" -> from_physical_u32(v, f)
      [] ctor = "from_physical_f32" -> from_physical_f32(v, f)

\* a Screen2d whose coordinates are infinite or not a number
NonFinite(f) == [nonfinite |-> TRUE, hidpi_factor |-> f]

\* A constructor of Screen2d is called.  Dividing a physical value by a
\* scale factor of 0.0 gives a value that is not finite: r32 rejects it in a
\* build with debug assertions and stores it in a build without.
NewScreen2d(ctor, v, f) ==
    /\ ctor = "from_physical_u32" => (v[1] >= 0 /\ v[2] >= 0)
    /\ call' = [op |-> ctor, value |-> v, hidpi_factor |-> f]
    /\ outcome' \in IF ctor # "from_logical" /\ f = 0
                     THEN {Fault, Returned(NonFinite(f))}
                     ELSE {Returned(construct(ctor, v, f))}
    /\ UNCHANGED <<stepVars, evtVars>>

\* WindowData::new is called; its assertion requires a positive factor
NewWindowData(id, f) ==
    /\ call' = [op |-> "WindowData::new", value |-> <<0, 0>>, hidpi_factor |-> f]
    /\ outcome' = IF ~(f > 0)
                  THEN Fault
                  ELSE Returned(WindowData_new(id, from_logical(<<0, 0>>, 1), f))
    /\ UNCHANGED <<stepVars, evtVars>>

\* EventState::set_logical_line_height(h) is called
SetLogicalLineHeight(h) ==
    /\ LET r == set_logical_line_height(es, h)
       IN  /\ es' = r.state
           /\ outcome' = IF r.fault THEN Fault ELSE Returned("nothing")
    /\ call' = [op |-> "set_logical_line_height", h |-> h,
                before |-> es.logical_line_height]
    /\ UNCHANGED <<stepVars, ret, raw, pre_windows, relooked, last_op, after_cancel,
                   press_pos, drag_origin, reg_order, last_mods>>

ConfInit == EvtIdle /\ StepIdle

ConfNext ==
    \/ \E ctor \in Screen2dCtors, v \in ScreenValues, f \in CtorFactors :
         NewScreen2d(ctor, v, f)
    \/ \E id \in WindowIds, f \in CtorFactors : NewWindowData(id, f)
    \/ \E h \in LineHeights : SetLogicalLineHeight(h)
    \/ \E d \in DeviceIds : DeviceMouseWheel(d, "LineDelta", WheelDelta)

ConfSpec == ConfInit /\ [][ConfNext]_vars

(***************************************************************************)
(* KeySpec: text input, keys and modifier notifications in the display's   *)
(* window and from a device.                                               *)
(***************************************************************************)
\* code points: the control characters and the first printable ones, the
\* neighbours of delete, and code points beyond ASCII up to char::MAX
Codepoints == (0..33) \cup {65, 126, 127, 128, 233, 8364, 1114111}
\* the modifier keys and a letter
ModifierKeys == {<<42, "LShift">>, <<29, "LControl">>, <<56, "LAlt">>,
                 <<125, "LWin">>, <<30, "A">>}
ModifierStates ==
    {Modifiers(shift, ctrl, alt, logo) : shift \in BOOLEAN, ctrl \in BOOLEAN,
                                         alt \in BOOLEAN, logo \in BOOLEAN}

KeyInit == EvtIdle /\ StepIdle

KeyNext ==
    \/ \E m \in ModifierStates : ModifiersChanged(PrimaryWindow, m)
    \/ \E c \in Codepoints : ReceivedCharacter(PrimaryWindow, c)
    \/ \E d \in DeviceIds, c \in Codepoints : DeviceText(d, c)
    \/ \E d \in DeviceIds, st \in ElementStates, k \in ModifierKeys :
         KeyboardInput(PrimaryWindow, d, st, k)
    \/ \E d \in DeviceIds, st \in ElementStates, k \in ModifierKeys :
         DeviceKey(d, st, k)

KeySpec == KeyInit /\ [][KeyNext]_vars

(***************************************************************************)
(* Claims about TimeStep, checked under StepSpec.                          *)
(***************************************************************************)
\* a tick has been made
Ticked == dur >= 0

\* the accumulator of ts after the most recent tick added the elapsed time
Accumulated == carry + dur * NanosPerMs

\* the accumulator held at least k full intervals (any number of them when
\* the interval is 0)
HoldsAtLeast(k) ==
    IF ts.freq_nanos = 0 THEN TRUE ELSE Accumulated \div ts.freq_nanos >= k

\* the number of full intervals the accumulator held, for a positive interval
FullIntervals == Accumulated \div ts.freq_nanos

\* C1: whenever, after adding the elapsed time, the accumulator holds at least
\* max_missed+2 full intervals, tick invokes the action exactly max_missed+1
\* times and leaves the accumulator at 0; with 500ms, max_missed 1 and one
\* jump of 1800ms the action fires twice and the accumulator is 0.
C1_BacklogDiscard ==
    /\ (Ticked /\ HoldsAtLeast(ts.max_missed + 2))
          => (fired = ts.max_missed + 1 /\ ts.elapsed_nanos = 0)
    /\ (ts.freq_nanos = 500 * NanosPerMs /\ ts.max_missed = 1
          /\ carry = 0 /\ dur = 1800)
          => (fired = 2 /\ ts.elapsed_nanos = 0)

C1_Witness ==
    /\ ts.freq_nanos = 500 * NanosPerMs
    /\ ts.max_missed = 1
    /\ carry = 0
    /\ dur = 1800
    /\ fired = 2
    /\ ts.elapsed_nanos = 0

\* C2: for a positive interval, if the accumulator holds n full intervals with
\* 0 <= n <= max_missed+1, tick invokes the action exactly n times and leaves
\* accumulated - n * interval, which the next call starts from; below one
\* interval the action is not invoked and nothing is lost.
C2_NoDiscard ==
    (Ticked /\ ts.freq_nanos > 0 /\ FullIntervals <= ts.max_missed + 1)
        => /\ fired = FullIntervals
           /\ ts.elapsed_nanos = Accumulated - FullIntervals * ts.freq_nanos
           /\ (Accumulated < ts.freq_nanos
                 => (fired = 0 /\ ts.elapsed_nanos = Accumulated))

\* a run of sub-interval ticks whose carried sum has just reached the interval
C2_Witness ==
    /\ Ticked
    /\ ts.freq_nanos > 0
    /\ carry > 0
    /\ dur > 0
    /\ dur * NanosPerMs < ts.freq_nanos
    /\ fired = 1
    /\ ts.elapsed_nanos > 0

\* C3: one call of tick invokes the action at most max_missed+1 times,
\* whatever the backlog: at most once with max_missed = 0, at most twice with
\* the default max_missed = 1.
C3_CatchUpBound ==
    /\ fired <= ts.max_missed + 1
    /\ (ts.max_missed = 0 => fired <= 1)
    /\ (ts.max_missed = 1 => fired <= 2)

\* a backlog of more than max_missed+2 intervals met the bound
C3_Witness ==
    /\ Ticked
    /\ ts.freq_nanos > 0
    /\ FullIntervals > ts.max_missed + 2
    /\ fired = ts.max_missed + 1

\* C4: two steppers with the same interval and max_missed that are fed the
\* same sequence of elapsed-time increments make the same number of
\* invocations in each call and keep the same residual accumulator.
C4_Determinism ==
    /\ twin_fired = fired
    /\ twin.elapsed_nanos = ts.elapsed_nanos

\* the two steppers read different instants, have been ticked more than once
\* and carry a residual
C4_Witness ==
    /\ Ticked
    /\ twin.last_inst # ts.last_inst
    /\ carry > 0
    /\ fired > 0
    /\ twin_fired = fired
    /\ ts.elapsed_nanos > 0

(***************************************************************************)
(* Claims about the mouse buttons, checked under MouseSpec.                *)
(***************************************************************************)
\* the state of a tracked button
Btn(b) ==
    CASE b = "Left" -> es.mouse_left
      [] b = "Middle" -> es.mouse_middle
      [] b = "Right" -> es.mouse_right

\* the tracked buttons whose most recent press-or-release was a press
Held == {b \in Tracked : last_op[b] = "press"}

\* C5: for every sequence of press, release and cancel operations on the
\* tracked buttons, a button's pressed flag is true if and only if the most
\* recent press-or-release operation on that button was a press.
C5_PressedIffLastPress ==
    \A b \in Tracked : Btn(b).pressed <=> (last_op[b] = "press")

\* the middle button is held and was cancelled, the left one was released
C5_Witness ==
    /\ last_op["Middle"] = "press"
    /\ es.mouse_middle.pressed
    /\ after_cancel["Middle"] = "cancel"
    /\ last_op["Left"] = "release"
    /\ ~es.mouse_left.pressed
    /\ last_op["Right"] = "none"

\* C6, as claimed: where cancelled is true, a cancel operation has occurred
\* while the button was held and no release of that button has occurred
\* since that cancel.
C6_NoReleaseSinceCancel ==
    \A b \in Tracked : Btn(b).cancelled => after_cancel[b] = "cancel"

\* C6, amended: where cancelled is true, a cancel operation has occurred
\* while the button was held and no press of that button has occurred since
\* that cancel (a release since then leaves the flag set).
C6_NoPressSinceCancel ==
    \A b \in Tracked : Btn(b).cancelled => after_cancel[b] \in {"cancel", "released"}

\* the left button was cancelled while held, then released, and reads cancelled
C6_Witness ==
    /\ es.mouse_left.cancelled
    /\ ~es.mouse_left.pressed
    /\ after_cancel["Left"] = "released"
    /\ last_op["Left"] = "release"

\* C7: a window-scoped key-down of Escape sets cancelled on every tracked
\* button that is pressed, leaves pressed unchanged on all buttons, leaves
\* cancelled unchanged on every button that is not pressed and still returns
\* KeyDown; a key-up of Escape and the events of any other key change no
\* button state; a later release of a cancelled button clears pressed and
\* yields MouseUp.
C7_CancelKey ==
    [][ /\ IsCancel(raw') =>
             /\ \A b \in Tracked :
                  /\ Btn(b)'.pressed = Btn(b).pressed
                  /\ Btn(b)'.pressed_at = Btn(b).pressed_at
                  /\ Btn(b).pressed => Btn(b)'.cancelled
                  /\ ~Btn(b).pressed => (Btn(b)'.cancelled = Btn(b).cancelled)
             /\ ret'.type = "KeyDown"
             /\ ret'.vkey = "Escape"
        /\ (raw'.kind = "KeyboardInput" /\ ~IsCancel(raw')) =>
             \A b \in Tracked : Btn(b)' = Btn(b)
        /\ \A b \in Tracked :
             (IsRelease(raw', b) /\ Btn(b).cancelled) =>
                 /\ ~Btn(b)'.pressed
                 /\ ret'.type = "MouseUp"
                 /\ ret'.button = b
      ]_vars

\* Escape has just gone down with the left button held and the right one,
\* cancelled in an earlier drag, released
C7_Witness ==
    /\ IsCancel(raw)
    /\ ret.type = "KeyDown"
    /\ es.mouse_left.pressed
    /\ es.mouse_left.cancelled
    /\ ~es.mouse_middle.pressed
    /\ ~es.mouse_middle.cancelled
    /\ ~es.mouse_right.pressed
    /\ es.mouse_right.cancelled

\* C8: get_mouse_drag_dist returns none whenever no tracked button is
\* pressed, and with exactly one tracked button held, pressed while the mouse
\* was at P, it returns the current mouse position minus P in logical units:
\* pressed at (10,10) and moved to (10,40) it reads (0,30).
C8_DragDistance ==
    LET dist == get_mouse_drag_dist(es)
        at == es.mouse_pos.logical
    IN  /\ Held = {} => dist = None
        /\ \A b \in Tracked :
             Held = {b} =>
                 /\ dist.some
                 /\ dist.value.logical = <<at[1] - press_pos[b][1],
                                           at[2] - press_pos[b][2]>>
        /\ (Held = {"Left"} /\ press_pos["Left"] = <<10, 10>> /\ at = <<10, 40>>)
             => dist.value.logical = <<0, 30>>

\* the left button, pressed at (10,10), is the one held, and the mouse is at (10,40)
C8_Witness ==
    /\ Held = {"Left"}
    /\ press_pos["Left"] = <<10, 10>>
    /\ es.mouse_pos.logical = <<10, 40>>
    /\ last_op["Right"] = "release"
    /\ get_mouse_drag_dist(es) = Some(from_logical(<<0, 30>>, 2))

\* C16: a cursor-moved event always sets mouse_pos to the new position; it
\* sets mouse_activity_start to the new position if and only if no tracked
\* button is pressed at that moment and leaves it unchanged while any tracked
\* button is held; it changes no button state, modifier flag or in-window
\* flag.
C16_CursorMovedRule ==
    [][ (raw'.scope = "window" /\ raw'.kind = "CursorMoved") =>
          LET f == es.windows[1].hidpi_factor
              new == <<raw'.position[1] \div f, raw'.position[2] \div f>>
          IN  /\ es'.mouse_pos.logical = new
              /\ ret'.type = "MouseMove"
              /\ ret'.pos = es'.mouse_pos
              /\ Held = {} => es'.mouse_activity_start = es'.mouse_pos
              /\ Held # {} => es'.mouse_activity_start = es.mouse_activity_start
              /\ \A b \in Tracked : Btn(b)' = Btn(b)
              /\ es'.shift_down = es.shift_down
              /\ es'.ctrl_down = es.ctrl_down
              /\ es'.alt_down = es.alt_down
              /\ es'.logo_down = es.logo_down
              /\ es'.mouse_in_window = es.mouse_in_window
      ]_vars

\* the cursor has just moved to (10,40) with only the right button held,
\* and the activity still starts at (10,10)
C16_Witness ==
    /\ raw.scope = "window"
    /\ raw.kind = "CursorMoved"
    /\ Held = {"Right"}
    /\ es.mouse_right.pressed
    /\ es.mouse_pos.logical = <<10, 40>>
    /\ es.mouse_activity_start.logical = <<10, 10>>

\* the fields of the interaction state other than the three button states
Rest(e) ==
    <<e.mouse_pos, e.mouse_activity_start, e.mouse_in_window, e.shift_down,
      e.alt_down, e.ctrl_down, e.logo_down, e.windows, e.logical_line_height>>

\* C23: a press of a tracked button sets that button's pressed to true, sets
\* its pressed_at to the mouse position held in the state at that moment and
\* clears its cancelled flag; it changes neither mouse_pos nor
\* mouse_activity_start nor the state of the other two buttons.
C23_PressTransition ==
    [][ \A b \in Tracked :
          IsPress(raw', b) =>
              /\ Btn(b)'.pressed
              /\ Btn(b)'.pressed_at = es.mouse_pos
              /\ ~Btn(b)'.cancelled
              /\ Btn(b)'.button = b
              /\ es'.mouse_pos = es.mouse_pos
              /\ es'.mouse_activity_start = es.mouse_activity_start
              /\ \A c \in Tracked \ {b} : Btn(c)' = Btn(c)
              /\ ret'.type = "MouseDown"
      ]_vars

\* the left button has just been pressed at (10,40) during an activity that
\* started at (10,10), the right button being held and cancelled
C23_Witness ==
    /\ IsPress(raw, "Left")
    /\ es.mouse_left.pressed
    /\ ~es.mouse_left.cancelled
    /\ es.mouse_left.pressed_at.logical = <<10, 40>>
    /\ es.mouse_pos.logical = <<10, 40>>
    /\ es.mouse_activity_start.logical = <<10, 10>>
    /\ es.mouse_right.pressed
    /\ es.mouse_right.cancelled
    /\ es.mouse_right.pressed_at.logical = <<10, 10>>

\* C24: a release of a tracked button clears only that button's pressed
\* flag; its pressed_at and its cancelled flag keep their values (a button
\* cancelled during a drag still reads cancelled after the release) and
\* every other field of the interaction state is unchanged.
C24_ReleaseFrame ==
    [][ \A b \in Tracked :
          IsRelease(raw', b) =>
              /\ Btn(b)' = [Btn(b) EXCEPT !.pressed = FALSE]
              /\ \A c \in Tracked \ {b} : Btn(c)' = Btn(c)
              /\ Rest(es') = Rest(es)
              /\ ret'.type = "MouseUp"
      ]_vars

\* the middle button, pressed at (10,40) and cancelled during the drag, has
\* just been released away from there and still reads both
C24_Witness ==
    /\ IsRelease(raw, "Middle")
    /\ ~es.mouse_middle.pressed
    /\ es.mouse_middle.cancelled
    /\ es.mouse_middle.pressed_at.logical = <<10, 40>>
    /\ es.mouse_pos.logical = <<10, 10>>
    /\ after_cancel["Middle"] = "released"

\* C25: whenever at least one tracked button is held, get_mouse_drag_dist
\* equals the current mouse position minus the mouse position at the most
\* recent idle-to-pressed transition, for every interleaving of presses,
\* releases and moves of the left, middle and right buttons.
C25_DragFromTransition ==
    Held # {} =>
        LET dist == get_mouse_drag_dist(es)
            at == es.mouse_pos.logical
        IN  /\ dist.some
            /\ dist.value.logical = <<at[1] - drag_origin[1],
                                      at[2] - drag_origin[2]>>

\* C26: whenever at least one tracked button is held, mouse_activity_start
\* is the mouse position at the moment the state last went from no tracked
\* button held to a tracked button held, also when a press follows a release
\* with no cursor move in between.
C26_ActivityStart ==
    Held # {} => es.mouse_activity_start.logical = drag_origin

\* the most recent event was a press or release of a button that is not tracked
IsUntracked(src) ==
    /\ src.scope = "window"
    /\ src.kind = "MouseInput"
    /\ src.button \notin Tracked

\* C29: a press or release of an "other" mouse button returns MouseDown or
\* MouseUp carrying that button and changes nothing in the interaction
\* state: not pressed, pressed_at or cancelled of the left, middle or right
\* button, nor the answers of is_any_mouse_button_pressed and
\* get_mouse_drag_dist.
C29_UntrackedButtons ==
    [][ IsUntracked(raw') =>
          /\ ret'.type = IF raw'.state = "Pressed" THEN "MouseDown" ELSE "MouseUp"
          /\ ret'.button = raw'.button
          /\ es' = es
          /\ \A b \in Tracked : Btn(b)' = Btn(b)
          /\ is_any_mouse_button_pressed(es') = is_any_mouse_button_pressed(es)
          /\ get_mouse_drag_dist(es') = get_mouse_drag_dist(es)
      ]_vars

\* another button has just been released while the right button is dragged
\* and the left one, cancelled earlier, is up
C29_Witness ==
    /\ IsUntracked(raw)
    /\ raw.state = "Released"
    /\ ret.type = "MouseUp"
    /\ ret.button = "Other"
    /\ es.mouse_right.pressed
    /\ ~es.mouse_left.pressed
    /\ es.mouse_left.cancelled
    /\ get_mouse_drag_dist(es) = Some(from_logical(<<0, 30>>, 2))

(***************************************************************************)
(* Claims about the window registry, checked under RegSpec.                *)
(***************************************************************************)
\* the most recent event made get_or_create_win add an entry
Created ==
    /\ ScaleResolving(raw)
    /\ raw.window_id \notin Registered(pre_windows)

\* C9: get_or_create on an identity that is not in the registry adds exactly
\* one entry for it, and an immediately following lookup of the same identity
\* returns that same entry without adding another one and without changing
\* any entry's contents.
C9_RegistryStability ==
    /\ Created =>
         /\ Len(es.windows) = Len(pre_windows) + 1
         /\ Cardinality({i \in 1..Len(es.windows) :
                            es.windows[i].id = raw.window_id}) = 1
         /\ \A i \in 1..Len(pre_windows) : es.windows[i] = pre_windows[i]
    /\ relooked =>
         /\ Len(es.windows) = Len(pre_windows)
         /\ es.windows[Len(es.windows)].id = raw.window_id
         /\ raw.kind = "Moved" => es.windows = pre_windows
         /\ \A i \in 1..Len(pre_windows) :
              /\ es.windows[i].id = pre_windows[i].id
              /\ es.windows[i].dim = pre_windows[i].dim
              /\ es.windows[i].id # raw.window_id => es.windows[i] = pre_windows[i]
    /\ \A id \in WindowIds \ Registered(es.windows) :
         LET first == get_or_create_win(es, id)
             again == get_or_create_win(first.state, id)
         IN  /\ Len(first.state.windows) = Len(es.windows) + 1
             /\ again.state = first.state
             /\ again.idx = first.idx
             /\ again.state.windows[again.idx].id = id

\* a window notification has just looked up the identity that the
\* notification before it had added as the registry's third entry
C9_Witness ==
    /\ relooked
    /\ raw.kind = "Moved"
    /\ Len(es.windows) = 3
    /\ es.windows[3].id = raw.window_id

\* C10: after a window-destroyed notification for w the registry contains no
\* entry for w and every other entry is unchanged and keeps its relative
\* order; only the destroyed notification removes an entry (a close request
\* does not).
C10_RegistryRemoval ==
    /\ (raw.scope = "window" /\ raw.kind = "Destroyed") =>
         /\ raw.window_id \notin Registered(es.windows)
         /\ es.windows = SelectSeq(pre_windows, LAMBDA e : e.id # raw.window_id)
    /\ (raw.scope = "window" /\ raw.kind = "CloseRequested") =>
         es.windows = pre_windows
    /\ (raw.scope = "window" /\ raw.kind # "Destroyed") =>
         Registered(pre_windows) \subseteq Registered(es.windows)

\* the second of three registered windows has just been destroyed
C10_Witness ==
    /\ raw.scope = "window"
    /\ raw.kind = "Destroyed"
    /\ Len(pre_windows) = 3
    /\ pre_windows[2].id = raw.window_id
    /\ Len(es.windows) = 2
    /\ es.windows[1] = pre_windows[1]
    /\ es.windows[2] = pre_windows[3]

\* the scale factor known when the most recent event was delivered
KnownFactor ==
    IF Len(pre_windows) > 0 THEN pre_windows[1].hidpi_factor ELSE 1

\* C12: an entry created on first reference to an unknown window identity
\* has size zero and the scale factor that the registry's first entry held
\* at that moment, or 1.0 if the registry held no entry (the notification of
\* a scale-factor change then stores its own factor in the new entry).
C12_LazyDefaults ==
    Created =>
        LET e == es.windows[Len(es.windows)]
        IN  /\ e.id = raw.window_id
            /\ e.dim = from_logical_r32(<<0, 0>>, KnownFactor)
            /\ raw.kind = "Moved" => e.hidpi_factor = KnownFactor
            /\ raw.kind = "ScaleFactorChanged" => e.hidpi_factor = raw.scale_factor

\* a third window was created while the first entry held factor 2 and the
\* second held factor 1
C12_Witness ==
    /\ Created
    /\ raw.kind = "Moved"
    /\ Len(pre_windows) = 2
    /\ pre_windows[1].hidpi_factor = 2
    /\ pre_windows[2].hidpi_factor = 1
    /\ es.windows[3].hidpi_factor = 2
    /\ es.windows[3].dim = from_logical_r32(<<0, 0>>, 2)

\* the registry entry of a registered identity
EntryOf(id) == es.windows[find_win(es.windows, id)]

C30_UniqueIdentities ==
    /\ \A i, j \in 1..Len(es.windows) :
         i # j => es.windows[i].id # es.windows[j].id
    /\ Created =>
         LET n == Len(es.windows)
         IN  /\ n = Len(pre_windows) + 1
             /\ SubSeq(es.windows, 1, n - 1) = pre_windows
             /\ es.windows[n].id = raw.window_id
             /\ es.windows[n].dim = from_logical_r32(<<0, 0>>, KnownFactor)
             /\ raw.kind # "ScaleFactorChanged" =>
                   es.windows[n].hidpi_factor = KnownFactor

\* the first window, destroyed while two others were registered, has just
\* been referenced again and stands third, with the scale factor of the
\* entry that is now first
C30_Witness ==
    /\ Created
    /\ raw.kind = "Moved"
    /\ raw.window_id = PrimaryWindow
    /\ Len(es.windows) = 3
    /\ es.windows[1].id = "w3"
    /\ es.windows[2].id = "w2"
    /\ es.windows[3] = [id |-> PrimaryWindow, dim |-> from_logical_r32(<<0, 0>>, 2),
                        hidpi_factor |-> 2]

(***************************************************************************)
(* Claims about the translator as a whole, checked under HostSpec.         *)
(***************************************************************************)
\* the raw events that never resolve a scale factor
NeverResolving ==
    \/ raw.scope \in {"device", "app"}
    \/ /\ raw.scope = "window"
       /\ raw.kind \in {"KeyboardInput", "ReceivedCharacter", "MouseInput", "Focused",
                        "DroppedFile", "HoveredFile", "HoveredFileCancelled",
                        "CursorEntered", "CursorLeft", "CloseRequested", "Destroyed",
                        "AxisMotion", "TouchpadPressure", "ModifiersChanged",
                        "ThemeChanged"}

\* C11: processing one raw event grows the window registry by at most one
\* entry, and only when the event is window-scoped, needs a scale factor
\* (resize, move, cursor-moved, window mouse-wheel, touch,
\* scale-factor-changed) and names an identity not yet registered, the new
\* entry being appended for that identity; every other event (key, text,
\* mouse button, focus, file drop, cursor enter/leave, close, all
\* device-scoped and application events) never adds an entry.
C11_RegistryGrowth ==
    /\ Len(es.windows) <= Len(pre_windows) + 1
    /\ Len(es.windows) > Len(pre_windows) =>
         /\ raw.scope = "window"
         /\ raw.kind \in {"Resized", "Moved", "CursorMoved", "MouseWheel", "Touch",
                          "ScaleFactorChanged"}
         /\ raw.window_id \notin Registered(pre_windows)
         /\ es.windows[Len(es.windows)].id = raw.window_id
         /\ SubSeq(es.windows, 1, Len(pre_windows)) = pre_windows
    /\ NeverResolving => Len(es.windows) <= Len(pre_windows)
    /\ (raw.scope = "window" /\ raw.window_id \in Registered(pre_windows)
          /\ raw.kind # "Destroyed") => Len(es.windows) = Len(pre_windows)

\* a wheel event for a window has just re-populated a registry that the
\* destruction of every window had emptied
C11_Witness ==
    /\ raw.scope = "window"
    /\ raw.kind = "MouseWheel"
    /\ pre_windows = <<>>
    /\ Len(es.windows) = 1
    /\ es.windows[1].id = raw.window_id

\* the variants of the normalized Event
EventTypes ==
    {"Placeholder", "AppAwaken", "AppResume", "AppSuspend", "Redraw",
     "ModifiersChanged", "WindowResize", "WindowMove", "WindowClose",
     "WindowDestroyed", "WindowRefresh", "WindowFocus", "WindowBlur", "FileDrop",
     "FileHover", "FileCancel", "MouseMotion", "AnywhereMouseWheel", "MouseMove",
     "MouseDown", "MouseUp", "MouseWheel", "MouseWindowEnter", "MouseWindowLeave",
     "TouchpadPressure", "Touch", "AxisMotion", "KeyDown", "KeyUp", "KeyText",
     "DeviceAdded", "DeviceRemoved", "DeviceMotion", "DeviceButtonDown",
     "DeviceButtonUp", "DeviceKeyDown", "DeviceKeyUp", "DeviceText",
     "HiDpiFactorChanged"}

\* the raw shapes with no normalized meaning
Unmapped(src) ==
    \/ src.scope = "app" /\ src.kind \in {"NewEvents", "UserEvent",
                                          "MainEventsCleared", "LoopDestroyed"}
    \/ src.scope = "window" /\ src.kind = "ThemeChanged"

IsKeyText == raw.scope = "window" /\ raw.kind = "ReceivedCharacter"
IsDeviceText == raw.scope = "device" /\ raw.kind = "Text"

\* the filter as the specification words it
Filtered(c) ==
    IF c < 32 /\ c # 9 /\ c # 13 THEN None
    ELSE IF c = 9 THEN Some(9)
    ELSE IF c = 13 THEN Some(10)
    ELSE IF c = 127 THEN None
    ELSE Some(c)

\* C14, as claimed: for every text-input event (KeyText and DeviceText) and
\* every code point c the ch field is none for c < 32 other than tab and
\* carriage return, tab for 9, line feed for 13, none for 127 and c itself
\* for every other code point.
C14_TextFiltering ==
    (IsKeyText \/ IsDeviceText) =>
        /\ ret.codepoint = raw.codepoint
        /\ ret.ch = Filtered(raw.codepoint)

\* C14, amended: the ch field is filtered in that way for every DeviceText
\* and for every KeyText translated while the ctrl flag is not set; the ch of
\* a KeyText translated while the ctrl flag is set is none for every code
\* point.  The raw code point is kept in either case.
C14_TextFilteringUnlessCtrl ==
    /\ IsDeviceText =>
         /\ ret.type = "DeviceText"
         /\ ret.codepoint = raw.codepoint
         /\ ret.ch = Filtered(raw.codepoint)
    /\ IsKeyText =>
         /\ ret.type = "KeyText"
         /\ ret.codepoint = raw.codepoint
         /\ ret.ch = IF es.ctrl_down THEN None ELSE Filtered(raw.codepoint)

\* 'A' has just been typed in the window with ctrl held, and reads no character
C14_Witness ==
    /\ IsKeyText
    /\ raw.codepoint = 65
    /\ es.ctrl_down
    /\ ~es.shift_down
    /\ ret.ch = None

\* C31: while ctrl_down is true, every window-scoped text input yields
\* KeyText with ch = none for every code point, printable ones included,
\* and codepoint still carries the raw input; device-scoped text input is
\* filtered by code point only, whatever ctrl_down reads.
C31_CtrlSuppressesWindowText ==
    [][ /\ (raw'.scope = "window" /\ raw'.kind = "ReceivedCharacter" /\ es.ctrl_down) =>
              /\ ret' = [type |-> "KeyText", win_id |-> raw'.window_id,
                         codepoint |-> raw'.codepoint, ch |-> None]
              /\ es'.ctrl_down
        /\ (raw'.scope = "device" /\ raw'.kind = "Text") =>
              /\ ret' = [type |-> "DeviceText", device_id |-> raw'.device_id,
                         codepoint |-> raw'.codepoint,
                         ch |-> Filtered(raw'.codepoint)]
              /\ es'.ctrl_down = es.ctrl_down
      ]_vars

\* the euro sign has just been typed in the window with only ctrl held: the
\* event carries the code point and no character
C31_Witness ==
    /\ IsKeyText
    /\ raw.codepoint = 8364
    /\ last_mods = Modifiers(FALSE, TRUE, FALSE, FALSE)
    /\ es.ctrl_down
    /\ ~es.alt_down
    /\ ret.codepoint = 8364
    /\ ret.ch = None

\* C17: in every reachable state the four flags equal the values the most
\* recent modifier-change notification reported (all false if there was
\* none); no other event, key-down and key-up of modifier keys included,
\* changes a flag.
C17_ModifierFlags ==
    /\ es.shift_down = last_mods.shift
    /\ es.ctrl_down = last_mods.ctrl
    /\ es.alt_down = last_mods.alt
    /\ es.logo_down = last_mods.logo
    /\ (raw.scope = "none") => last_mods = NoModifiers

\* the left control key has just gone up in the window while the flags still
\* read ctrl and alt, as the last notification reported
C17_Witness ==
    /\ raw.scope = "window"
    /\ raw.kind = "KeyboardInput"
    /\ raw.virtual_keycode = "LControl"
    /\ raw.state = "Released"
    /\ last_mods = Modifiers(FALSE, TRUE, TRUE, FALSE)
    /\ es.ctrl_down
    /\ es.alt_down
    /\ ~es.shift_down
    /\ ~es.logo_down

(***************************************************************************)
(* Claims about configuration faults.                                      *)
(***************************************************************************)
\* C18: constructing a stepper with a non-positive frequency
\* (TimeStep::for_freq_ms(0)) faults at construction, so that no stepper
\* with interval 0 is ever obtained and ticked.  (Checked under StepSpec.)
C18_ZeroFrequencyFaults ==
    ~(Ticked /\ ts.freq_nanos = 0)

\* C19: every public constructor of Screen2d (from_logical, from_physical,
\* from_physical_u32, from_physical_f32) faults when given a scale factor
\* <= 0, so that no Screen2d with a non-positive scale factor is
\* constructed.  (Checked under ConfSpec.)
C19_NonPositiveFactorFaults ==
    call.op \in Screen2dCtors =>
        /\ call.hidpi_factor <= 0 => outcome = Fault
        /\ outcome # Fault => outcome.value.hidpi_factor > 0

\* C20: set_logical_line_height(h) faults when h < 1.0 and then leaves the
\* stored line height unchanged, and stores h otherwise; the logical line
\* height is at least 1.0 in every reachable state, and 18 initially.
\* (Checked under ConfSpec.)
C20_LineHeight ==
    /\ es.logical_line_height >= 1 * LineHeightUnit
    /\ (call.op = "set_logical_line_height" /\ call.h < 1 * LineHeightUnit) =>
         /\ outcome = Fault
         /\ es.logical_line_height = call.before
    /\ (call.op = "set_logical_line_height" /\ call.h >= 1 * LineHeightUnit) =>
         /\ outcome # Fault
         /\ es.logical_line_height = call.h
    /\ call = NoCall => es.logical_line_height = 18 * LineHeightUnit

\* a line height of 0.5 has just been refused, the stored 1.5 staying
C20_Witness ==
    /\ call.op = "set_logical_line_height"
    /\ call.h = 5
    /\ call.before = 15
    /\ outcome = Fault
    /\ es.logical_line_height = 15

(***************************************************************************)
(* Claims about coordinate units, checked under UnitSpec.                  *)
(***************************************************************************)
\* r is x rounded to an integer: nearest, a half going away from zero
IsRounded(r, x) ==
    \/ 2 * abs(r * x.d - x.n) < x.d
    \/ 2 * abs(r * x.d - x.n) = x.d /\ abs(r) * x.d > abs(x.n)

\* the rounded physical value of a logical coordinate under a scale factor
RoundedPhysical(v, f) ==
    CHOOSE r \in -40..40 : IsRounded(r, Fr(v.n * f.n, v.d * f.d))

\* C21: physical_u32 faults if and only if at least one rounded physical
\* component round(logical * scale) is negative; otherwise it returns the
\* two values physical() returns.  A logical value whose product with the
\* scale rounds to zero (a negative value above -0.5 physical pixels) does
\* not fault.
C21_UnsignedPhysical ==
    call.op = "physical_u32" =>
        LET a == RoundedPhysical(call.value[1], call.hidpi_factor)
            b == RoundedPhysical(call.value[2], call.hidpi_factor)
        IN  /\ (outcome = Fault) <=> (a < 0 \/ b < 0)
            /\ outcome # Fault =>
                 /\ outcome.value = <<a, b>>
                 /\ outcome.value =
                      physical(Screen2d_from_logical(call.value, call.hidpi_factor))

\* -0.25 logical under factor 1.5 is -0.375 physical pixels and reads 0
C21_Witness ==
    /\ call.op = "physical_u32"
    /\ call.value = <<Fr(-1, 4), Fr(-1, 4)>>
    /\ call.hidpi_factor = Fr(3, 2)
    /\ outcome = Returned(<<0, 0>>)

\* x and y differ by at most one
WithinOne(x, y) ==
    LET diff == fr_sub(x, y)
    IN  abs(diff.n) <= diff.d

\* the most recent call was a round trip and both coordinates came back
\* within one unit
RoundTripWithinOne ==
    /\ outcome.value.hidpi_factor = call.hidpi_factor
    /\ WithinOne(outcome.value.logical[1], call.value[1])
    /\ WithinOne(outcome.value.logical[2], call.value[2])

\* C22, as claimed: for all positive scale factors f and logical values v,
\* converting v to physical (round(v * f)) and back to logical with the same
\* f (physical / f) yields a logical value within one unit of v.
C22_RoundTrip ==
    call.op = "round_trip" => RoundTripWithinOne

\* C22, amended: the same for all scale factors f >= 1 (and values of a
\* magnitude at which f32 arithmetic is exact to well under one unit, as all
\* values here are).
C22_RoundTripFromOne ==
    (call.op = "round_trip" /\ call.hidpi_factor.n >= call.hidpi_factor.d)
        => RoundTripWithinOne

\* 2.25 under factor 1.5 is 3.375 physical pixels, read as 3, and comes
\* back as 2
C22_Witness ==
    /\ call.op = "round_trip"
    /\ call.value = <<Fr(9, 4), Fr(-1, 4)>>
    /\ call.hidpi_factor = Fr(3, 2)
    /\ outcome.value.logical = <<Fr(2, 1), Fr(0, 1)>>

(***************************************************************************)
(* Claims about scale factors and window sizes, checked under DpiSpec.     *)
(***************************************************************************)
\* C27: in every reachable interaction state, after any sequence of raw
\* events, scale-factor-changed notifications of any reported value
\* included, the scale factor of every registry entry and of every
\* coordinate unit stored in the state (mouse_pos, mouse_activity_start,
\* each pressed_at, each window size) is strictly greater than zero.
C27_PositiveFactors ==
    /\ \A i \in 1..Len(es.windows) :
         /\ es.windows[i].hidpi_factor > 0
         /\ es.windows[i].dim.hidpi_factor > 0
    /\ es.mouse_pos.hidpi_factor > 0
    /\ es.mouse_activity_start.hidpi_factor > 0
    /\ \A b \in Tracked : Btn(b).pressed_at.hidpi_factor > 0
\* the entries of the windows other than w, in registry order
Others(windows, w) == SelectSeq(windows, LAMBDA e : e.id # w)

\* how many entries the registry holds for w
Entries(windows, w) == Len(SelectSeq(windows, LAMBDA e : e.id = w))

\* the interaction state without its registry
NonWindow(e) == [e EXCEPT !.windows = <<>>]

\* C28: a resize notification for window w sets only w's stored size, to
\* the physical size converted with w's current scale factor, which is the
\* size the returned WindowResize carries; a DPI-change notification for w
\* sets only w's scale factor to the reported value and leaves w's stored
\* size, with the scale factor that size carries, as it was; neither
\* changes another window's entry, the mouse position, or a button or
\* modifier state.
C28_TargetedEntry ==
    [][ LET w == raw'.window_id
            e == es'.windows[find_win(es'.windows, w)]
        IN  /\ (raw'.scope = "window" /\ raw'.kind = "Resized") =>
                  /\ Others(es'.windows, w) = Others(es.windows, w)
                  /\ Entries(es'.windows, w) = 1
                  /\ w \in Registered(es.windows) =>
                        e.hidpi_factor = EntryOf(w).hidpi_factor
                  /\ e.dim.hidpi_factor = e.hidpi_factor
                  /\ e.dim.logical[1] * e.hidpi_factor = raw'.size[1]
                  /\ e.dim.logical[2] * e.hidpi_factor = raw'.size[2]
                  /\ ret' = [type |-> "WindowResize", win_id |-> w, size |-> e.dim]
                  /\ NonWindow(es') = NonWindow(es)
            /\ (raw'.scope = "window" /\ raw'.kind = "ScaleFactorChanged") =>
                  /\ Others(es'.windows, w) = Others(es.windows, w)
                  /\ Entries(es'.windows, w) = 1
                  /\ e.hidpi_factor = raw'.scale_factor
                  /\ w \in Registered(es.windows) => e.dim = EntryOf(w).dim
                  /\ ret' = [type |-> "HiDpiFactorChanged", win_id |-> w,
                             factor |-> raw'.scale_factor]
                  /\ NonWindow(es') = NonWindow(es)
      ]_vars

\* the second window, sized 400x200 at scale 1, has just reported scale 2
\* and keeps that size, next to a first window of 200x100 at scale 2, with
\* the left button held
C28_Witness ==
    /\ raw.scope = "window" /\ raw.kind = "ScaleFactorChanged"
    /\ raw.window_id = "w2"
    /\ Len(es.windows) = 2
    /\ es.windows[2] = [id |-> "w2", dim |-> from_logical(<<400, 200>>, 1),
                        hidpi_factor |-> 2]
    /\ es.windows[1] = [id |-> "w1", dim |-> from_logical(<<200, 100>>, 2),
                        hidpi_factor |-> 2]
    /\ es.mouse_left.pressed
    /\ es.mouse_pos.logical = <<10, 40>>
(***************************************************************************)
(* Claims about device and application events, checked under DevSpec.      *)
(***************************************************************************)
\* the scale factor of the primary window, or 1.0 if the registry is empty
PrimaryFactor == IF Len(es.windows) > 0 THEN es.windows[1].hidpi_factor ELSE 1

\* C32: processing a device-scoped raw event (added, removed, mouse motion,
\* wheel, axis motion, button, key, text) or an application-level event
\* (suspended, resumed, redraw) leaves every field of the interaction
\* state unchanged, the window registry included; a device wheel event
\* resolves its scale factor from the primary window, or 1.0 if the
\* registry is empty, without creating an entry.
C32_ReadOnlyEvents ==
    [][ /\ raw'.scope \in {"device", "app"} => es' = es
        /\ (raw'.scope = "device" /\ raw'.kind = "MouseWheel") =>
              /\ ret'.type = "AnywhereMouseWheel"
              /\ ret'.delta.hidpi_factor = PrimaryFactor
              /\ Len(es'.windows) = Len(es.windows)
              /\ raw'.delta_kind = "PixelDelta" =>
                    /\ ret'.delta.logical[1] * PrimaryFactor = raw'.delta[1]
                    /\ ret'.delta.logical[2] * PrimaryFactor = raw'.delta[2]
      ]_vars

\* a device wheel of twenty pixels has just been translated at scale 2, the
\* factor of the second window, which became primary when the first was
\* destroyed; ctrl and the left button are held
C32_Witness ==
    /\ raw.scope = "device" /\ raw.kind = "MouseWheel"
    /\ raw.delta_kind = "PixelDelta"
    /\ Len(es.windows) = 2
    /\ es.windows[1].id = "w2" /\ es.windows[1].hidpi_factor = 2
    /\ es.windows[2].id = "w1" /\ es.windows[2].hidpi_factor = 1
    /\ ret.delta = from_logical(<<0, 10>>, 2)
    /\ es.ctrl_down
    /\ es.mouse_left.pressed
(***************************************************************************)
(* Claims about the loop of TimeStep::tick, checked under LoopFair.        *)
(***************************************************************************)
\* C33: every call of TimeStep::tick returns after finitely many
\* invocations of the action, for every configuration (any max_missed, and
\* an interval of 0 as well) and every accumulated backlog, provided the
\* action itself returns.
C33_TickReturns ==
    (outcome = Pending) ~> (outcome = Returned("nothing") /\ fired < MaxCalls)

\* a call on a stepper of interval 0 and max_missed 2, entered with a
\* backlog of 1800 ms, has returned after three invocations
C33_Witness ==
    /\ call = [op |-> "tick", count |-> 2]
    /\ outcome = Returned("nothing")
    /\ ts.freq_nanos = 0
    /\ ts.max_missed = 2
    /\ carry + dur * NanosPerMs = 1800 * NanosPerMs
    /\ fired = 3
    /\ ts.elapsed_nanos = 0
====
